---- MODULE Spec2Model ----
(***************************************************************************)
(* Memory lifecycle engine of the persistent hierarchical memory server:   *)
(* MemoryManager (store, search, recall, forget, consolidate, decay,       *)
(* rebalance) over its working-memory cache and one of the three vector    *)
(* store adapters (in-process, Weaviate, Pinecone).                        *)
(*                                                                         *)
(* Representation.                                                         *)
(*  - Reals are fixed point: 1.0 is Scale (importance, relevance, score).   *)
(*  - Time is counted in minutes instead of milliseconds.                  *)
(*  - A record id is the number of the store call that issued it           *)
(*    (randomUUID never repeats).                                          *)
(*  - An embedding is abstracted to "vec" (the record carries a vector);   *)
(*    the similarity of two texts is the table Relevance.                  *)
(*  - vs is what the vector store persists, wm is the workingMemory map.   *)
(*    The in-process adapter keeps and hands out object references, so an  *)
(*    object mutated by the engine is seen at once through every map that  *)
(*    holds it: alias is the set of ids whose wm and vs entries are one    *)
(*    and the same object.  The two remote adapters return copies.         *)
(*  - Every handler is one action; a throw ends the handler where the code *)
(*    throws and keeps the writes made before it.                          *)
(***************************************************************************)
EXTENDS Integers, Sequences, FiniteSets, TLC

VARIABLES backend, vs, wm, alias, now, steps, nextId, faulted, last, calls

vars == <<backend, vs, wm, alias, now, steps, nextId, faulted, last, calls>>

----------------------------------------------------------------------------
(* Bounds of the model *)

(* The number of operations (handler calls and clock advances) of a run *)
MaxOps == 4

(* Fixed point: Scale stands for 1.0 *)
Scale == 10000

----------------------------------------------------------------------------
(* Program constants *)

MinutesPerDay == 1440
DecayRate == 1000
DecayPeriodDays == 30
ImportanceFloor == 1000
DefaultImportance == 5000
LongTermThreshold == 8000
ShortTermThreshold == 5000
TtlWorking == 30
TtlShortTerm == 10080
TtlLongTerm == 525600
ConsolidationAge == 43200
DemoteScore == 3000
PromoteScore == 8000
MinGroupSize == 3
WorkingCapacity == 100
OverFetch == 2
PineconeDefaultImportance == 5000

WORKING == "working"
SHORT_TERM == "short-term"
LONG_TERM == "long-term"

Backends == {"memory", "weaviate", "pinecone"}

Ids == 1..MaxOps

Start == 1000

----------------------------------------------------------------------------
(* Generic helpers *)

Put(f, k, v) == [x \in (DOMAIN f) \cup {k} |-> IF x = k THEN v ELSE f[x]]

Del(f, k) == [x \in (DOMAIN f) \ {k} |-> f[x]]

DelAll(f, ks) == [x \in (DOMAIN f) \ ks |-> f[x]]

Max(a, b) == IF a >= b THEN a ELSE b

Min(a, b) == IF a <= b THEN a ELSE b

Range(s) == {s[i] : i \in DOMAIN s}

Prefix(s, n) == SubSeq(s, 1, Min(n, Len(s)))

(* The ids of set S as a sequence, ascending (insertion order of a Map) *)
RECURSIVE AscSeq(_)
AscSeq(S) ==
    IF S = {} THEN <<>>
    ELSE LET m == CHOOSE x \in S : \A y \in S : x <= y
         IN <<m>> \o AscSeq(S \ {m})

(* Array.prototype.sort (stable) by rank descending, applied to sequence s; *)
(* rank is a function on the elements of s                                 *)
RECURSIVE SortDesc(_, _)
SortDesc(s, rank) ==
    IF s = <<>> THEN <<>>
    ELSE LET top == CHOOSE i \in DOMAIN s :
                      /\ \A j \in DOMAIN s : rank[s[i]] >= rank[s[j]]
                      /\ \A j \in 1..(i - 1) : rank[s[j]] < rank[s[i]]
         IN <<s[top]>> \o SortDesc(SubSeq(s, 1, top - 1) \o SubSeq(s, top + 1, Len(s)), rank)

HasAll(tags, wanted) == \A i \in DOMAIN wanted : wanted[i] \in Range(tags)

----------------------------------------------------------------------------
(* Fixed-point arithmetic for Math.exp and Math.log *)

RDiv(a, d) == (2 * a + d) \div (2 * d)

RECURSIVE ExpSeries(_, _, _, _)
ExpSeries(x, term, k, sign) ==
    IF term = 0 THEN 0
    ELSE sign * term + ExpSeries(x, RDiv(term * x, k * Scale), k + 1, 0 - sign)

(* exp(-x) for a fixed-point x >= 0: the power series below 1.0, and       *)
(* exp(-x) = exp(-x/2) * exp(-x/2) above it.                               *)
RECURSIVE ExpNeg(_)
ExpNeg(x) ==
    IF x <= Scale THEN ExpSeries(x, Scale, 1, 1)
    ELSE RDiv(ExpNeg(x \div 2) * ExpNeg(x - (x \div 2)), Scale)

LnTable == <<0, 6931, 10986, 13863, 16094, 17918, 19459, 20794>>

(* ln(n) for n >= 1; above the table ln(n) is taken as ln(n div 2) + ln 2 *)
RECURSIVE LnFix(_)
LnFix(n) == IF n <= Len(LnTable) THEN LnTable[n] ELSE LnFix(n \div 2) + LnTable[2]

(* Math.exp(-config.decay.rate * (ageDays / 30)) for an age in minutes *)
DecayFactor(age) ==
    ExpNeg((DecayRate * age) \div (MinutesPerDay * DecayPeriodDays))

----------------------------------------------------------------------------
(* Texts and their similarity (the embedding provider and the cosine) *)

ConsolidatedText == "c"

(* A query is the sequence of the texts it is made of; <<>> is the empty   *)
(* string, whose embedding is the zero vector (cosine 0 with everything).  *)
Relevance(q, c) ==
    IF q = <<>> THEN 0
    ELSE IF q = <<c>> THEN Scale
    ELSE IF c \in Range(q) THEN 7000
    ELSE IF c = ConsolidatedText THEN 2000 ELSE 4000

----------------------------------------------------------------------------
(* Pinecone's flat metadata: tags joined by ',' and split again on reading *)

CommaTag == "p,q"

Pieces(tag) == IF tag = CommaTag THEN <<"p", "q">> ELSE <<tag>>

RECURSIVE JoinTags(_)
JoinTags(tags) ==
    IF tags = <<>> THEN <<>>
    ELSE Pieces(Head(tags)) \o JoinTags(Tail(tags))

SplitTags(joined) == SelectSeq(joined, LAMBDA t : t # "")

memoryToVector(m) == [m EXCEPT !.tags = JoinTags(m.tags)]

(* "x || d" of JavaScript for a number: 0 is falsy *)
OrDefault(x, d) == IF x = 0 THEN d ELSE x

vectorToMemory(v, t) ==
    [v EXCEPT !.timestamp = OrDefault(v.timestamp, t),
              !.importance = OrDefault(v.importance, PineconeDefaultImportance),
              !.tags = SplitTags(v.tags),
              !.accessCount = OrDefault(v.accessCount, 0),
              !.lastAccessed = OrDefault(v.lastAccessed, t)]

(* What adapter b persists for the engine's record m *)
Persisted(b, m) == IF b = "pinecone" THEN memoryToVector(m) ELSE m


----------------------------------------------------------------------------
(* The three vector store adapters.  s is the persisted map id -> record;  *)
(* a call returns [ok, s]: ok = FALSE is a throw.  "net" says whether the  *)
(* remote service answers the call (the in-process adapter has no network).*)

ListCap == 1000

NoLayer == "none"

(* IVectorStore.store *)
VsStore(b, s, m, net) ==
    IF ~m.vec THEN [ok |-> FALSE, s |-> s]
    ELSE IF b # "memory" /\ ~net THEN [ok |-> FALSE, s |-> s]
    ELSE [ok |-> TRUE, s |-> Put(s, m.id, Persisted(b, m))]

(* IVectorStore.get: the record the engine receives, for an id of DOMAIN s *)
VsGet(b, s, id, t) ==
    CASE b = "memory" -> s[id]
      [] b = "weaviate" -> [s[id] EXCEPT !.vec = FALSE]
      [] OTHER -> vectorToMemory(s[id], t)

(* IVectorStore.delete: [ok = the boolean returned, s] *)
VsDelete(b, s, id) ==
    CASE b = "pinecone" -> [ok |-> TRUE, s |-> s]
      [] OTHER -> [ok |-> id \in DOMAIN s, s |-> Del(s, id)]

RECURSIVE VsDeleteBatch(_, _, _)
VsDeleteBatch(b, s, ids) ==
    IF ids = <<>> THEN s
    ELSE VsDeleteBatch(b, VsDelete(b, s, Head(ids)).s, Tail(ids))

(* IVectorStore.update *)
VsUpdate(b, s, m, net) ==
    CASE b = "memory" ->
           IF m.id \notin DOMAIN s THEN [ok |-> FALSE, s |-> s]
           ELSE [ok |-> TRUE, s |-> Put(s, m.id, [m EXCEPT !.vec = m.vec \/ s[m.id].vec])]
      [] b = "weaviate" ->
           IF ~net \/ m.id \notin DOMAIN s THEN [ok |-> FALSE, s |-> s]
           ELSE [ok |-> TRUE, s |-> Put(Del(s, m.id), m.id, m)]
      [] OTHER -> VsStore(b, s, m, net)

(* The layer / tags filter of search and list, on a persisted record *)
Matches(b, r, layer, tags) ==
    /\ layer # NoLayer => r.layer = layer
    /\ HasAll(r.tags, tags)

(* IVectorStore.list: the records the engine receives, as a sequence of ids *)
VsListIds(b, s, layer, tags) ==
    LET all == AscSeq(DOMAIN s)
        hit == SelectSeq(all, LAMBDA id : Matches(b, s[id], layer, tags))
    IN IF b = "memory" THEN hit
       ELSE IF b = "weaviate"
            THEN SelectSeq(Prefix(all, ListCap), LAMBDA id : Matches(b, s[id], layer, tags))
            ELSE Prefix(hit, ListCap)

(* The record list() hands to the engine for id *)
VsListed(b, s, id, t) ==
    CASE b = "memory" -> s[id]
      [] b = "weaviate" -> [s[id] EXCEPT !.vec = FALSE]
      [] OTHER -> [vectorToMemory(s[id], t) EXCEPT !.vec = FALSE]

(* IVectorStore.search: the ids of the results, best first *)
VsSearch(b, s, q, k, layer, tags) ==
    LET all == AscSeq(DOMAIN s)
        rank == [id \in DOMAIN s |-> Relevance(q, s[id].content)]
        ok(id) == Matches(b, s[id], layer, tags)
    IN CASE b = "memory" -> Prefix(SortDesc(SelectSeq(all, ok), rank), k)
         [] b = "weaviate" ->
              Prefix(SelectSeq(Prefix(SortDesc(SelectSeq(all, LAMBDA id : s[id].vec), rank), k), ok), k)
         [] OTHER -> Prefix(SortDesc(SelectSeq(all, ok), rank), k)

----------------------------------------------------------------------------
(* MemoryManager.  The engine state e is [vs, wm, alias, ok]; ok = FALSE   *)
(* means the call threw.                                                   *)

NoImportance == 0 - 1
NoSource == "none"
AGENT == "agent"
USER == "user"
SYSTEM == "system"

(* The manager's state during a call: ok is FALSE once the call has        *)
(* thrown, err is TRUE once a vector store call of it has failed           *)
Engine == [vs |-> vs, wm |-> wm, alias |-> alias, ok |-> TRUE, err |-> FALSE]

(* determineInitialLayer with the thresholds excluded *)
determineInitialLayer_Strict(o) ==
    LET importance == IF o.importance = NoImportance THEN DefaultImportance ELSE o.importance
    IN IF importance > LongTermThreshold THEN LONG_TERM
       ELSE IF importance > ShortTermThreshold THEN SHORT_TERM
       ELSE WORKING

determineInitialLayer(o) ==
    LET importance == IF o.importance = NoImportance THEN DefaultImportance ELSE o.importance
    IN IF importance >= LongTermThreshold THEN LONG_TERM
       ELSE IF importance >= ShortTermThreshold THEN SHORT_TERM
       ELSE WORKING

(* The record MemoryManager.store builds *)
NewMemory(id, content, o, t) ==
    [id |-> id, content |-> content, vec |-> TRUE,
     timestamp |-> t,
     importance |-> IF o.importance = NoImportance THEN DefaultImportance ELSE o.importance,
     source |-> IF o.source = NoSource THEN AGENT ELSE o.source,
     tags |-> o.tags,
     accessCount |-> 0,
     lastAccessed |-> t,
     layer |-> IF o.layer = NoLayer THEN determineInitialLayer(o) ELSE o.layer]

(* MemoryManager.store: workingMemory.set, then vectorStore.store *)
mgrStore(e, id, content, o, t, net) ==
    LET m == NewMemory(id, content, o, t)
        cached == Put(e.wm, id, m)
        r == VsStore(backend, e.vs, m, net)
    IN [vs |-> r.s, wm |-> cached,
        alias |-> IF r.ok /\ backend = "memory" THEN e.alias \cup {id} ELSE e.alias,
        ok |-> r.ok, err |-> e.err \/ ~r.ok]

(* get that asks the vector store before the cache *)
mgrGetNet_StoreFirst(e, id, t, net) ==
    IF id \in DOMAIN e.vs
    THEN [found |-> TRUE, src |-> "store", m |-> VsGet(backend, e.vs, id, t)]
    ELSE IF id \in DOMAIN e.wm THEN [found |-> TRUE, src |-> "cache", m |-> e.wm[id]]
    ELSE [found |-> FALSE, src |-> "none", m |-> <<>>]

(* MemoryManager.get: where the record comes from, and the record *)
(* A remote adapter's get catches a failed request and returns null *)
mgrGetNet(e, id, t, net) ==
    IF id \in DOMAIN e.wm THEN [found |-> TRUE, src |-> "cache", m |-> e.wm[id]]
    ELSE IF backend # "memory" /\ ~net
         THEN [found |-> FALSE, src |-> "failed", m |-> <<>>]
    ELSE IF id \in DOMAIN e.vs
         THEN [found |-> TRUE, src |-> "store", m |-> VsGet(backend, e.vs, id, t)]
         ELSE [found |-> FALSE, src |-> "none", m |-> <<>>]

mgrGet(e, id, t) == mgrGetNet(e, id, t, TRUE)

(* An assignment to a field of the object obtained from src: m2 is the     *)
(* object after it.  The maps that hold that very object show it at once.  *)
Mutate(e, id, src, m2) ==
    LET shared == backend = "memory" /\ id \in e.alias
    IN [e EXCEPT !.wm = IF src = "cache" \/ (src = "store" /\ shared)
                        THEN Put(e.wm, id, m2) ELSE e.wm,
                 !.vs = IF backend = "memory" /\ (src = "store" \/ shared)
                        THEN Put(e.vs, id, m2) ELSE e.vs]

(* "if (workingMemory.has(id)) workingMemory.set(id, memory)" *)
CacheIfPresent(e, id, src, m2) ==
    IF id \in DOMAIN e.wm
    THEN [e EXCEPT !.wm = Put(e.wm, id, m2),
                   !.alias = IF backend = "memory" /\ src = "store" /\ id \in DOMAIN e.vs
                             THEN e.alias \cup {id}
                             ELSE IF src = "cache" THEN e.alias ELSE e.alias \ {id}]
    ELSE e

(* "await vectorStore.update(memory)" for the object m2 obtained from src *)
WriteBack(e, src, m2, net) ==
    LET u == VsUpdate(backend, e.vs, m2, net)
        held == src = "cache" /\ m2.id \in DOMAIN e.wm
    IN [e EXCEPT !.vs = u.s,
                 !.alias = IF u.ok /\ backend = "memory" /\ held
                           THEN e.alias \cup {m2.id} ELSE e.alias,
                 !.ok = u.ok,
                 !.err = e.err \/ ~u.ok]

(* updateAccessCount without "memory.metadata.accessCount++" *)
updateAccessCount_Uncounted(e, id, t, fail) ==
    LET g == mgrGetNet(e, id, t, fail # "get")
        net == fail # "update"
    IN IF ~g.found THEN [e EXCEPT !.err = e.err \/ g.src = "failed"]
       ELSE LET m2 == [g.m EXCEPT !.lastAccessed = t]
                e1 == Mutate(e, id, g.src, m2)
                e2 == CacheIfPresent(e1, id, g.src, m2)
            IN WriteBack(e2, g.src, m2, net)

(* fail names the vector store call of this invocation that fails *)
updateAccessCount(e, id, t, fail) ==
    LET g == mgrGetNet(e, id, t, fail # "get")
        net == fail # "update"
    IN IF ~g.found THEN [e EXCEPT !.err = e.err \/ g.src = "failed"]
       ELSE LET m2 == [g.m EXCEPT !.accessCount = g.m.accessCount + 1,
                                  !.lastAccessed = t]
                e1 == Mutate(e, id, g.src, m2)
                e2 == CacheIfPresent(e1, id, g.src, m2)
            IN WriteBack(e2, g.src, m2, net)

(* "for (const result of results) await this.updateAccessCount(result.id)" *)
RECURSIVE BumpAll(_, _, _, _, _)
BumpAll(e, ids, i, t, f) ==
    IF i > Len(ids) THEN e
    ELSE LET r == updateAccessCount(e, ids[i], t, IF i = f.at THEN f.call ELSE "none")
         IN IF r.ok THEN BumpAll(r, ids, i + 1, t, f) ELSE r

(* The filter MemoryManager.search hands to the vector store *)
SearchLayer(layerFilter) == IF Len(layerFilter) > 0 THEN layerFilter[1] ELSE NoLayer

(* The results of vectorStore.search that survive minRelevance *)
SearchHits(e, q, limit, minRelevance, layerFilter, tags) ==
    LET found == VsSearch(backend, e.vs, q, limit * OverFetch, SearchLayer(layerFilter), tags)
    IN SelectSeq(found, LAMBDA id : Relevance(q, e.vs[id].content) >= minRelevance)

(* MemoryManager.search: [e, ret]; ret are the ids returned when e.ok *)
(* search that returns every hit it found *)
mgrSearch_Unsliced(e, q, limit, minRelevance, layerFilter, tags, t, f) ==
    LET hits == SearchHits(e, q, limit, minRelevance, layerFilter, tags)
        e2 == BumpAll(e, hits, 1, t, f)
    IN [e |-> e2, ret |-> IF e2.ok THEN hits ELSE <<>>]

mgrSearch(e, q, limit, minRelevance, layerFilter, tags, t, f) ==
    LET hits == SearchHits(e, q, limit, minRelevance, layerFilter, tags)
        e2 == BumpAll(e, hits, 1, t, f)
    IN [e |-> e2, ret |-> IF e2.ok THEN Prefix(hits, limit) ELSE <<>>]

AllLayers == <<WORKING, SHORT_TERM, LONG_TERM>>

NoContext == "none"

(* The query string recall builds from task and context *)
RecallQuery(task, context) ==
    IF context = NoContext THEN <<task>> ELSE <<task, context>>

mgrRecall(e, task, context, limit, t, f) ==
    mgrSearch(e, RecallQuery(task, context), limit, 0, AllLayers, <<>>, t, f)

----------------------------------------------------------------------------
(* MemoryManager: forget *)

NoId == 0
NoTime == 0 - 1

(* "options.olderThan" used as a condition: absent and 0 are both falsy *)
Truthy(olderThan) == olderThan # NoTime /\ olderThan # 0

(* forget, memoryId branch: [e, deleted] *)
ForgetById(e, memoryId) ==
    IF memoryId = NoId THEN [e |-> e, deleted |-> <<>>]
    ELSE LET d == VsDelete(backend, e.vs, memoryId)
         IN [e |-> [e EXCEPT !.vs = d.s,
                             !.wm = Del(e.wm, memoryId),
                             !.alias = e.alias \ {memoryId}],
             deleted |-> IF d.ok THEN <<memoryId>> ELSE <<>>]

(* forget, criteria branch: the ids it selects from the listing *)
ForgetSelection(e, olderThan, layer, t) ==
    SelectSeq(VsListIds(backend, e.vs, layer, <<>>),
              LAMBDA id : ~(Truthy(olderThan)
                            /\ VsListed(backend, e.vs, id, t).timestamp >= olderThan))

ForgetByCriteria(e, olderThan, layer, t) ==
    IF Truthy(olderThan) \/ layer # NoLayer
    THEN LET ids == ForgetSelection(e, olderThan, layer, t)
         IN [e |-> [e EXCEPT !.vs = VsDeleteBatch(backend, e.vs, ids),
                             !.wm = DelAll(e.wm, Range(ids)),
                             !.alias = e.alias \ Range(ids)],
             deleted |-> ids]
    ELSE [e |-> e, deleted |-> <<>>]

mgrForget(e, memoryId, olderThan, layer, t) ==
    LET a == ForgetById(e, memoryId)
        c == ForgetByCriteria(a.e, olderThan, layer, t)
    IN [e |-> c.e, deleted |-> a.deleted \o c.deleted]

----------------------------------------------------------------------------
(* MemoryManager: score, decay, rebalance *)

calculateMemoryScore(m, t) ==
    RDiv(m.importance * DecayFactor(t - m.timestamp), Scale)
        + RDiv(LnFix(m.accessCount + 1), 10)

(* The importance applyImportanceDecay assigns to a record of that age *)
Decayed(importance, age) ==
    Max(ImportanceFloor, RDiv(importance * DecayFactor(age), Scale))

(* One iteration of the loop of applyImportanceDecay, for the listed m *)
DecayOne(e, m, t, net) ==
    IF t - m.timestamp >= MinutesPerDay
    THEN LET m2 == [m EXCEPT !.importance = Decayed(m.importance, t - m.timestamp)]
             e1 == Mutate(e, m.id, "store", m2)
             e2 == WriteBack(e1, "store", m2, net)
         IN IF e2.ok THEN CacheIfPresent(e2, m.id, "store", m2) ELSE e2
    ELSE e

(* The loop over the snapshot ids that list() returned from the store s0 *)
RECURSIVE DecayAll(_, _, _, _, _, _)
DecayAll(e, s0, ids, i, t, failAt) ==
    IF i > Len(ids) THEN e
    ELSE LET m == VsListed(backend, IF backend = "memory" THEN e.vs ELSE s0, ids[i], t)
             r == DecayOne(e, m, t, i # failAt)
         IN IF r.ok THEN DecayAll(r, s0, ids, i + 1, t, failAt) ELSE r

applyImportanceDecay(e, t, failAt) ==
    DecayAll(e, e.vs, VsListIds(backend, e.vs, NoLayer, <<>>), 1, t, failAt)

Ttl(layer) ==
    CASE layer = WORKING -> TtlWorking
      [] layer = SHORT_TERM -> TtlShortTerm
      [] OTHER -> TtlLongTerm

(* getNextLowerLayer that sends a working record to short-term *)
getNextLowerLayer_Cycling(current) ==
    CASE current = LONG_TERM -> SHORT_TERM
      [] current = SHORT_TERM -> WORKING
      [] OTHER -> SHORT_TERM

getNextLowerLayer(current) ==
    CASE current = LONG_TERM -> SHORT_TERM
      [] current = SHORT_TERM -> WORKING
      [] OTHER -> current

Attenuated(importance) == Max(ImportanceFloor, RDiv(importance, 2))

(* rebalanceLayers that halves the importance of every expired low-score   *)
(* record, the demoted ones included                                       *)
RebalanceDecision_AttenuatingAll(m, t) ==
    LET score == calculateMemoryScore(m, t)
        age == t - m.timestamp
        expired == age > Ttl(m.layer) /\ score < DemoteScore
        m1 == IF expired THEN [m EXCEPT !.importance = Attenuated(m.importance)] ELSE m
        newLayer == IF expired
                    THEN (IF m.layer = LONG_TERM THEN NoLayer ELSE getNextLowerLayer(m.layer))
                    ELSE IF score > PromoteScore /\ m.layer # LONG_TERM THEN LONG_TERM
                    ELSE NoLayer
        moved == newLayer # NoLayer /\ newLayer # m.layer
    IN [m |-> IF moved THEN [m1 EXCEPT !.layer = newLayer] ELSE m1,
        touched |-> m1 # m, moved |-> moved]

(* What one iteration of rebalanceLayers decides for the listed m:          *)
(* the object after its in-place assignments, and whether it is written    *)
RebalanceDecision(m, t) ==
    LET score == calculateMemoryScore(m, t)
        age == t - m.timestamp
        expired == age > Ttl(m.layer) /\ score < DemoteScore
        m1 == IF expired /\ m.layer = LONG_TERM
              THEN [m EXCEPT !.importance = Attenuated(m.importance)] ELSE m
        newLayer == IF expired
                    THEN (IF m.layer = LONG_TERM THEN NoLayer ELSE getNextLowerLayer(m.layer))
                    ELSE IF score > PromoteScore /\ m.layer # LONG_TERM THEN LONG_TERM
                    ELSE NoLayer
        moved == newLayer # NoLayer /\ newLayer # m.layer
    IN [m |-> IF moved THEN [m1 EXCEPT !.layer = newLayer] ELSE m1,
        touched |-> m1 # m, moved |-> moved]

RebalanceOne(e, m, t, net) ==
    LET d == RebalanceDecision(m, t)
        e1 == IF d.touched \/ d.moved THEN Mutate(e, m.id, "store", d.m) ELSE e
    IN IF d.moved
       THEN LET e2 == WriteBack(e1, "store", d.m, net)
            IN IF e2.ok THEN CacheIfPresent(e2, m.id, "store", d.m) ELSE e2
       ELSE e1

RECURSIVE RebalanceAll(_, _, _, _, _, _)
RebalanceAll(e, s0, ids, i, t, failAt) ==
    IF i > Len(ids) THEN e
    ELSE LET m == VsListed(backend, IF backend = "memory" THEN e.vs ELSE s0, ids[i], t)
             r == RebalanceOne(e, m, t, i # failAt)
         IN IF r.ok THEN RebalanceAll(r, s0, ids, i + 1, t, failAt) ELSE r

rebalanceLayers(e, t, failAt) ==
    RebalanceAll(e, e.vs, VsListIds(backend, e.vs, NoLayer, <<>>), 1, t, failAt)

----------------------------------------------------------------------------
(* MemoryManager: consolidate.  L maps the listed ids to the listed records *)

DefaultTargetSize == 50
UNCATEGORIZED == "uncategorized"
CONSOLIDATED == "consolidated"

PrimaryTag(m) ==
    IF Len(m.tags) > 0 /\ m.tags[1] # "" THEN m.tags[1] ELSE UNCATEGORIZED

(* The keys of groupByTags in insertion order *)
RECURSIVE GroupKeys(_, _, _)
GroupKeys(ids, L, seen) ==
    IF ids = <<>> THEN <<>>
    ELSE LET tag == PrimaryTag(L[Head(ids)])
         IN IF tag \in seen THEN GroupKeys(Tail(ids), L, seen)
            ELSE <<tag>> \o GroupKeys(Tail(ids), L, seen \cup {tag})

groupByTags(ids, L, tag) == SelectSeq(ids, LAMBDA id : PrimaryTag(L[id]) = tag)

RECURSIVE SumImportance(_, _)
SumImportance(ids, L) ==
    IF ids = <<>> THEN 0 ELSE L[Head(ids)].importance + SumImportance(Tail(ids), L)

RECURSIVE FlatTags(_, _)
FlatTags(ids, L) ==
    IF ids = <<>> THEN <<>> ELSE L[Head(ids)].tags \o FlatTags(Tail(ids), L)

(* [...new Set(x)]: the first occurrence of each element, in order *)
RECURSIVE Distinct(_, _)
Distinct(x, seen) ==
    IF x = <<>> THEN <<>>
    ELSE IF Head(x) \in seen THEN Distinct(Tail(x), seen)
    ELSE <<Head(x)>> \o Distinct(Tail(x), seen \cup {Head(x)})

(* The options consolidate passes to store for one group *)
ConsolidatedOptions(group, L, tag) ==
    [content |-> ConsolidatedText,
     importance |-> RDiv(SumImportance(group, L) * 9, Len(group) * 10),
     tags |-> Distinct(FlatTags(group, L), {}) \o <<tag, CONSOLIDATED>>,
     source |-> SYSTEM,
     layer |-> LONG_TERM]

(* The two summaries of a ConsolidationResult *)
SUMMARY_NOT_ENOUGH == "Not enough old memories to consolidate"
SUMMARY_CONSOLIDATED == "Consolidated"

(* The loop over the groups; c is [e, nid, consolidated, deleted, summary] *)
RECURSIVE ConsolidateGroups(_, _, _, _, _, _, _)
ConsolidateGroups(c, keys, i, ids, L, t, failAt) ==
    IF i > Len(keys) THEN c
    ELSE LET group == groupByTags(ids, L, keys[i])
         IN IF Len(group) < MinGroupSize
            THEN ConsolidateGroups(c, keys, i + 1, ids, L, t, failAt)
            ELSE LET o == ConsolidatedOptions(group, L, keys[i])
                     e1 == mgrStore(c.e, c.nid, o.content, o, t, i # failAt)
                     e2 == [e1 EXCEPT !.vs = VsDeleteBatch(backend, e1.vs, group),
                                      !.wm = DelAll(e1.wm, Range(group)),
                                      !.alias = e1.alias \ Range(group)]
                 IN IF e1.ok
                    THEN ConsolidateGroups(
                             [e |-> e2, nid |-> c.nid + 1,
                              consolidated |-> Append(c.consolidated, c.nid),
                              deleted |-> c.deleted \o group,
                              summary |-> c.summary],
                             keys, i + 1, ids, L, t, failAt)
                    ELSE [c EXCEPT !.e = e1, !.nid = c.nid + 1]

(* The candidates: the listed records of the layer older than olderThan *)
Candidates(e, olderThan, layer, t) ==
    LET cutoff == IF olderThan = NoTime THEN t - ConsolidationAge ELSE olderThan
    IN SelectSeq(VsListIds(backend, e.vs, layer, <<>>),
                 LAMBDA id : VsListed(backend, e.vs, id, t).timestamp < cutoff)

(* consolidate without the retain set: every candidate is grouped *)
mgrConsolidate_NoRetain(e, olderThan, targetSize, layer, t, nid, failAt) ==
    LET old == Candidates(e, olderThan, layer, t)
        L == [id \in Range(old) |-> VsListed(backend, e.vs, id, t)]
        sorted == SortDesc(old, [id \in Range(old) |-> calculateMemoryScore(L[id], t)])
        start == [e |-> e, nid |-> nid, consolidated |-> <<>>, deleted |-> <<>>,
                  summary |-> SUMMARY_CONSOLIDATED]
    IN IF Len(old) < targetSize THEN [start EXCEPT !.summary = SUMMARY_NOT_ENOUGH]
       ELSE ConsolidateGroups(start, GroupKeys(sorted, L, {}), 1, sorted, L, t, failAt)

(* consolidate without the early return on too few candidates *)
mgrConsolidate_Unchecked(e, olderThan, targetSize, layer, t, nid, failAt) ==
    LET old == Candidates(e, olderThan, layer, t)
        L == [id \in Range(old) |-> VsListed(backend, e.vs, id, t)]
        sorted == SortDesc(old, [id \in Range(old) |-> calculateMemoryScore(L[id], t)])
        rest == SubSeq(sorted, targetSize + 1, Len(sorted))
        start == [e |-> e, nid |-> nid, consolidated |-> <<>>, deleted |-> <<>>,
                  summary |-> SUMMARY_CONSOLIDATED]
    IN ConsolidateGroups(start, GroupKeys(rest, L, {}), 1, rest, L, t, failAt)

mgrConsolidate(e, olderThan, targetSize, layer, t, nid, failAt) ==
    LET old == Candidates(e, olderThan, layer, t)
        L == [id \in Range(old) |-> VsListed(backend, e.vs, id, t)]
        sorted == SortDesc(old, [id \in Range(old) |-> calculateMemoryScore(L[id], t)])
        rest == SubSeq(sorted, targetSize + 1, Len(sorted))
        start == [e |-> e, nid |-> nid, consolidated |-> <<>>, deleted |-> <<>>,
                  summary |-> SUMMARY_CONSOLIDATED]
    IN IF Len(old) < targetSize THEN [start EXCEPT !.summary = SUMMARY_NOT_ENOUGH]
       ELSE ConsolidateGroups(start, GroupKeys(rest, L, {}), 1, rest, L, t, failAt)

----------------------------------------------------------------------------
(* MemoryManager: initialize (loadWorkingMemory) and close *)

(* accessCount / (Date.now() - lastAccessed), as a rank; x/0 is Infinity *)
LoadRank(m, t) ==
    IF t = m.lastAccessed THEN (IF m.accessCount = 0 THEN 0 ELSE Scale * Scale)
    ELSE (m.accessCount * Scale) \div (t - m.lastAccessed)

loadWorkingMemory(e, t) ==
    LET ids == VsListIds(backend, e.vs, NoLayer, <<>>)
        L == [id \in Range(ids) |-> VsListed(backend, e.vs, id, t)]
        top == Prefix(SortDesc(ids, [id \in Range(ids) |-> LoadRank(L[id], t)]),
                      WorkingCapacity)
    IN [e EXCEPT !.wm = [id \in Range(top) \cup DOMAIN e.wm |->
                            IF id \in Range(top) THEN L[id] ELSE e.wm[id]],
                 !.alias = IF backend = "memory" THEN e.alias \cup Range(top) ELSE e.alias]

(* MemoryManager.close: vectorStore.close(), then workingMemory.clear() *)
mgrClose(e) ==
    [e EXCEPT !.vs = IF backend = "memory" THEN <<>> ELSE e.vs,
              !.wm = <<>>,
              !.alias = {}]

----------------------------------------------------------------------------
(* Inputs *)

StoreInputs ==
    { [content |-> "a", importance |-> NoImportance, tags |-> <<>>, source |-> NoSource,
       layer |-> NoLayer],
      [content |-> "a", importance |-> 0, tags |-> <<>>, source |-> NoSource,
       layer |-> NoLayer],
      [content |-> "b", importance |-> 10000, tags |-> <<"t">>, source |-> USER,
       layer |-> NoLayer],
      [content |-> "a", importance |-> 2000, tags |-> <<>>, source |-> NoSource,
       layer |-> SHORT_TERM],
      [content |-> "b", importance |-> 10000, tags |-> <<>>, source |-> NoSource,
       layer |-> WORKING] }

DefaultLimit == 10

SearchOptions ==
    { [limit |-> DefaultLimit, minRelevance |-> 0, layerFilter |-> <<>>, tags |-> <<>>],
      [limit |-> 1, minRelevance |-> 0, layerFilter |-> <<>>, tags |-> <<>>],
      [limit |-> DefaultLimit, minRelevance |-> 5000, layerFilter |-> <<>>, tags |-> <<>>],
      [limit |-> DefaultLimit, minRelevance |-> 0, layerFilter |-> <<WORKING>>, tags |-> <<>>],
      [limit |-> DefaultLimit, minRelevance |-> 0, layerFilter |-> <<SHORT_TERM, LONG_TERM>>,
       tags |-> <<>>] }

Queries == {<<"a">>}

TimeSteps == {43200, 527040}

ForgetInputs ==
    { [memoryId |-> 1, olderThan |-> NoTime, layer |-> NoLayer],
      [memoryId |-> NoId, olderThan |-> NoTime, layer |-> WORKING],
      [memoryId |-> NoId, olderThan |-> now, layer |-> NoLayer] }

(* A remote call can fail; the in-process adapter has no network *)
NetChoices == IF backend = "memory" THEN {TRUE} ELSE {TRUE, FALSE}

(* Which vector store call of a search fails: none, or the get or the      *)
(* update of the first access-count write-back                             *)
NoFailure == [at |-> 0, call |-> "none"]
FailChoices ==
    IF backend = "memory" THEN {NoFailure}
    ELSE {NoFailure, [at |-> 1, call |-> "update"], [at |-> 1, call |-> "get"]}

Done(op, e, id, ret, q, so) ==
    [op |-> op, threw |-> ~e.ok, failed |-> e.err, id |-> id, ret |-> ret, q |-> q,
     limit |-> so.limit, minRelevance |-> so.minRelevance, layerFilter |-> so.layerFilter]

NoSearch == [limit |-> 0, minRelevance |-> 0, layerFilter |-> <<>>, tags |-> <<>>]

(* The calls in progress: open maps a call to its position, begun counts  *)
(* the calls started, base is the store when the first of them started     *)
(* and writes lists, per id, the updates the calls have made since;        *)
(* timers are the interval timers MemoryScheduler.start has set and not    *)
(* cleared, closed says that MemoryManager.close has run, gone are the     *)
(* ids that forget has returned as deleted                                 *)
Timers == {"decay", "rebalance", "check"}

NoCalls == [open |-> <<>>, begun |-> 0, base |-> <<>>, writes |-> <<>>,
            timers |-> Timers, closed |-> FALSE, gone |-> {}]

(* Every action counts as one operation of the run *)
Step ==
    /\ steps < MaxOps
    /\ steps' = steps + 1
    /\ UNCHANGED <<backend, calls>>

----------------------------------------------------------------------------
(* Actions *)

Init ==
    /\ backend \in Backends
    /\ vs = <<>>
    /\ wm = <<>>
    /\ alias = {}
    /\ now = Start
    /\ steps = 0
    /\ nextId = 1
    /\ faulted = FALSE
    /\ last = Done("init", Engine, 0, <<>>, <<>>, NoSearch)
    /\ calls = NoCalls

Commit(e) ==
    /\ vs' = e.vs
    /\ wm' = e.wm
    /\ alias' = e.alias
    /\ faulted' = (faulted \/ e.err)

Tick(d) ==
    /\ Step
    /\ now' = now + d
    /\ last' = Done("tick", Engine, 0, <<>>, <<>>, NoSearch)
    /\ UNCHANGED <<vs, wm, alias, nextId, faulted>>

Store(content, o, net) ==
    /\ Step
    /\ LET e == mgrStore(Engine, nextId, content, o, now, net)
       IN /\ Commit(e)
          /\ last' = Done("store", e, nextId, <<>>, <<>>, NoSearch)
    /\ nextId' = nextId + 1
    /\ UNCHANGED now

Search(q, so, f) ==
    /\ Step
    /\ LET r == mgrSearch(Engine, q, so.limit, so.minRelevance, so.layerFilter, so.tags,
                          now, f)
       IN /\ Commit(r.e)
          /\ last' = Done("search", r.e, 0, r.ret, q, so)
    /\ UNCHANGED <<now, nextId>>

Recall(task, context, limit, f) ==
    /\ Step
    /\ LET r == mgrRecall(Engine, task, context, limit, now, f)
       IN /\ Commit(r.e)
          /\ last' = Done("recall", r.e, 0, r.ret, RecallQuery(task, context),
                          [limit |-> limit, minRelevance |-> 0, layerFilter |-> AllLayers])
    /\ UNCHANGED <<now, nextId>>

Forget(fo) ==
    /\ Step
    /\ LET r == mgrForget(Engine, fo.memoryId, fo.olderThan, fo.layer, now)
       IN /\ Commit(r.e)
          /\ last' = Done("forget", r.e, fo.memoryId, r.deleted, <<>>, NoSearch)
    /\ UNCHANGED <<now, nextId>>

Consolidate(olderThan, targetSize, layer, failAt) ==
    /\ Step
    /\ LET c == mgrConsolidate(Engine, olderThan, targetSize, layer, now, nextId, failAt)
       IN /\ Commit(c.e)
          /\ nextId' = c.nid
          /\ last' = Done("consolidate", c.e, 0, c.deleted, <<>>, NoSearch)
    /\ UNCHANGED now

ApplyDecay(failAt) ==
    /\ Step
    /\ LET e == applyImportanceDecay(Engine, now, failAt)
       IN /\ Commit(e)
          /\ last' = Done("decay", e, 0, <<>>, <<>>, NoSearch)
    /\ UNCHANGED <<now, nextId>>

Rebalance(failAt) ==
    /\ Step
    /\ LET e == rebalanceLayers(Engine, now, failAt)
       IN /\ Commit(e)
          /\ last' = Done("rebalance", e, 0, <<>>, <<>>, NoSearch)
    /\ UNCHANGED <<now, nextId>>

(* The server stops (close) and a new process initializes on the same store *)
Restart ==
    /\ Step
    /\ LET e == loadWorkingMemory(mgrClose(Engine), now)
       IN /\ vs' = e.vs
          /\ wm' = e.wm
          /\ alias' = e.alias
    /\ last' = Done("restart", Engine, 0, <<>>, <<>>, NoSearch)
    /\ UNCHANGED <<now, nextId, faulted>>

Next ==
    \/ \E d \in TimeSteps : Tick(d)
    \/ \E o \in StoreInputs, net \in NetChoices : Store(o.content, o, net)
    \/ \E q \in Queries, so \in SearchOptions, f \in FailChoices : Search(q, so, f)
    \/ \E c \in {NoContext, "b"}, f \in FailChoices : Recall("a", c, DefaultLimit, f)
    \/ \E fo \in ForgetInputs : Forget(fo)
    \/ \E ts \in {1, DefaultTargetSize} : Consolidate(NoTime, ts, SHORT_TERM, 0)
    \/ ApplyDecay(0)
    \/ Rebalance(0)
    \/ Restart

Spec == Init /\ [][Next]_vars

----------------------------------------------------------------------------
(* Observations used by the properties *)

(* The metadata of a record *)
Meta(m) ==
    [timestamp |-> m.timestamp, importance |-> m.importance, source |-> m.source,
     tags |-> m.tags, accessCount |-> m.accessCount, lastAccessed |-> m.lastAccessed,
     layer |-> m.layer]

(* What VectorStore.get(id) returns, for a stored id *)
StoreView(id) == VsGet(backend, vs, id, now)

(* What MemoryManager.get(id) returns, for an id held by cache or store *)
GetView(id) == mgrGet(Engine, id, now).m

Known == DOMAIN vs \cup DOMAIN wm

IsSearch(l) == l.op \in {"search", "recall"}

TypeOK ==
    /\ backend \in Backends
    /\ DOMAIN vs \subseteq Ids
    /\ DOMAIN wm \subseteq Ids
    /\ alias \subseteq DOMAIN vs \cap DOMAIN wm
    /\ backend # "memory" => alias = {}
    /\ steps \in 0..MaxOps
    /\ nextId \in 1..(MaxOps + 1)
    /\ \A id \in DOMAIN vs : vs[id].id = id
    /\ \A id \in DOMAIN wm : wm[id].id = id

(* In-process adapter: cache and store entries of one id are one object *)
AliasComplete == backend = "memory" => alias = DOMAIN vs \cap DOMAIN wm

----------------------------------------------------------------------------
(* memory_store, memory_search and MemoryManager.get, with the arguments   *)
(* at the edges of the layer thresholds and of the limit range             *)

MaxOpsS == 3
MaxSearchLimit == 100
NoLimit == 0 - 1
NoRelevance == 0 - 1

StoreOptionsS ==
    { [content |-> "a", importance |-> i, tags |-> <<>>, source |-> NoSource, layer |-> NoLayer] :
          i \in {NoImportance, 4999, 5000, 7999, 8000} }
    \cup
    { [content |-> "b", importance |-> 0, tags |-> <<CommaTag>>, source |-> NoSource,
       layer |-> NoLayer],
      [content |-> "b", importance |-> 2000, tags |-> <<"t">>, source |-> USER,
       layer |-> LONG_TERM],
      [content |-> "b", importance |-> 9000, tags |-> <<>>, source |-> SYSTEM,
       layer |-> WORKING] }

SearchArgsS ==
    [limit : {NoLimit, 0, 1, MaxSearchLimit, MaxSearchLimit + 1},
     minRelevance : {NoRelevance, 5000}]

StepS ==
    /\ steps < MaxOpsS
    /\ steps' = steps + 1
    /\ UNCHANGED <<backend, calls>>

(* validateLimit(limit, defaultLimit, maxLimit): ok = FALSE is a throw *)
validateLimit(limit, defaultLimit, maxLimit) ==
    IF limit = NoLimit THEN [ok |-> TRUE, limit |-> defaultLimit]
    ELSE IF limit < 1 THEN [ok |-> FALSE, limit |-> limit]
    ELSE IF limit > maxLimit THEN [ok |-> FALSE, limit |-> limit]
    ELSE [ok |-> TRUE, limit |-> limit]

(* handleMemorySearch: validation, then MemoryManager.search; a throw of   *)
(* either is answered with isError                                         *)
handleMemorySearch(e, q, a, t) ==
    LET v == validateLimit(a.limit, DefaultLimit, MaxSearchLimit)
        minRelevance == IF a.minRelevance = NoRelevance THEN 0 ELSE a.minRelevance
        r == mgrSearch(e, q, v.limit, minRelevance, <<>>, <<>>, t, NoFailure)
    IN IF ~v.ok THEN [e |-> e, ret |-> <<>>, isError |-> TRUE, searched |-> FALSE]
       ELSE [e |-> r.e, ret |-> r.ret, isError |-> ~r.e.ok, searched |-> TRUE]

StoreS(o) ==
    /\ StepS
    /\ LET e == mgrStore(Engine, nextId, o.content, o, now, TRUE)
       IN /\ Commit(e)
          /\ last' = Done("store", e, nextId, <<>>, <<>>, NoSearch)
                        @@ [options |-> o, r |-> NewMemory(nextId, o.content, o, now)]
    /\ nextId' = nextId + 1
    /\ UNCHANGED now

GetS(id) ==
    /\ StepS
    /\ id < nextId
    /\ last' = Done("get", Engine, id, <<>>, <<>>, NoSearch)
                  @@ [got |-> mgrGet(Engine, id, now)]
    /\ UNCHANGED <<vs, wm, alias, now, nextId, faulted>>

SearchS(q, a) ==
    /\ StepS
    /\ LET r == handleMemorySearch(Engine, q, a, now)
       IN /\ Commit(r.e)
          /\ last' = Done("search", r.e, 0, r.ret, q, NoSearch)
                        @@ [args |-> a, isError |-> r.isError, searched |-> r.searched]
    /\ UNCHANGED <<now, nextId>>

NextS ==
    \/ \E o \in StoreOptionsS : StoreS(o)
    \/ \E id \in 1..MaxOpsS : GetS(id)
    \/ \E q \in Queries, a \in SearchArgsS : SearchS(q, a)

SpecS == Init /\ [][NextS]_vars

----------------------------------------------------------------------------
(* C1: when VectorStore.store throws inside MemoryManager.store, the id    *)
(* that call allocated is not a key of the working-memory cache and        *)
(* MemoryManager.get of it returns null.                                   *)
C1_FailedStoreNotCached ==
    (last.op = "store" /\ last.threw) =>
        (last.id \notin DOMAIN wm /\ ~mgrGet(Engine, last.id, now).found)

(* C2: in a run without a failing backend call, every record of the cache  *)
(* is in the vector store under the same id with equal metadata.           *)
C2_CacheCoherent ==
    ~faulted =>
        \A id \in DOMAIN wm :
            id \in DOMAIN vs /\ Meta(wm[id]) = Meta(StoreView(id))

(* The same, for the in-process and the Weaviate adapter only *)
C2_CacheCoherentLossless ==
    (~faulted /\ backend # "pinecone") =>
        \A id \in DOMAIN wm :
            id \in DOMAIN vs /\ Meta(wm[id]) = Meta(StoreView(id))

(* C3: recall searches all three layers: when records are stored and none  *)
(* of them is in the working layer, recall still returns memories.         *)
C3_RecallAllLayers ==
    (/\ last.op = "recall"
     /\ ~last.threw
     /\ DOMAIN vs # {}
     /\ \A id \in DOMAIN vs : vs[id].vec /\ vs[id].layer # WORKING)
        => last.ret # <<>>

(* C4: a search with a non-empty layerFilter returns only records of the   *)
(* listed layers, and a record of any listed layer that passes             *)
(* minRelevance is returned unless limit results were returned.            *)
C4_LayerFilterHonoured ==
    (last.op = "search" /\ ~last.threw /\ last.layerFilter # <<>>) =>
        /\ \A id \in Range(last.ret) : vs[id].layer \in Range(last.layerFilter)
        /\ \A id \in DOMAIN vs :
              (/\ vs[id].vec
               /\ vs[id].layer \in Range(last.layerFilter)
               /\ Relevance(last.q, vs[id].content) >= last.minRelevance
               /\ Len(last.ret) < last.limit)
                  => id \in Range(last.ret)

(* The single-layer part of C4 alone *)
C4_SingleLayerFilter ==
    (last.op = "search" /\ ~last.threw /\ Len(last.layerFilter) = 1) =>
        \A id \in Range(last.ret) : vs[id].layer = last.layerFilter[1]

C6_OnlyReturnedCounted ==
    [][~faulted' =>
          \A id \in Known :
              (/\ mgrGet(Engine, id, now)'.found
               /\ ~(IsSearch(last') /\ id \in Range(last'.ret)))
                 => /\ GetView(id)'.accessCount = GetView(id).accessCount
                    /\ GetView(id)'.lastAccessed = GetView(id).lastAccessed]_vars

(* The frame of C6 for the operations other than search and recall *)
C6_OthersKeepCounters ==
    [][(~faulted' /\ ~IsSearch(last')) =>
          \A id \in Known :
              mgrGet(Engine, id, now)'.found
                 => /\ GetView(id)'.accessCount = GetView(id).accessCount
                    /\ GetView(id)'.lastAccessed = GetView(id).lastAccessed]_vars

(* C7: a failing access-counter write-back does not fail search or recall: *)
(* the call does not throw.                                                *)
C7_WriteBackBestEffort == IsSearch(last) => ~last.threw

(* C8: every record of the vector store and of the cache has an            *)
(* importance between 0.1 and 1.0.                                         *)
C8_ImportanceInRange ==
    /\ \A id \in DOMAIN vs : ImportanceFloor <= vs[id].importance /\ vs[id].importance <= Scale
    /\ \A id \in DOMAIN wm : ImportanceFloor <= wm[id].importance /\ wm[id].importance <= Scale

(* The upper half of C8 alone *)
C8_ImportanceAtMostOne ==
    /\ \A id \in DOMAIN vs : vs[id].importance <= Scale
    /\ \A id \in DOMAIN wm : wm[id].importance <= Scale

(* C9: an applyImportanceDecay call that directly follows another one,     *)
(* with no time passing between them, changes no record's importance.      *)
C9_DecayIdempotent ==
    [][(last.op = "decay" /\ ~last.threw /\ last'.op = "decay" /\ ~last'.threw /\ now' = now) =>
          \A id \in Known : GetView(id)'.importance = GetView(id).importance]_vars

(* The record m after a decay pass at time t, as C10 states it *)
C10_Expected(m, t) ==
    IF t - m.timestamp >= MinutesPerDay
    THEN [m EXCEPT !.importance = Max(ImportanceFloor,
                                      RDiv(m.importance * DecayFactor(t - m.timestamp), Scale))]
    ELSE m

(* C10: in a run where no backend call has failed before it,               *)
(* applyImportanceDecay completes and leaves every record, as the     *)
(* cache holds it and as the vector store returns it, as it was except     *)
(* that a record aged one day or more has importance                       *)
(* max(0.1, importance * exp(-rate * ageDays / 30)).                       *)
C10_DecayApplied ==
    [][(last'.op = "decay" /\ ~faulted) =>
          /\ ~last'.threw
          /\ DOMAIN wm' = DOMAIN wm
          /\ DOMAIN vs' = DOMAIN vs
          /\ \A id \in DOMAIN wm : wm'[id] = C10_Expected(wm[id], now)
          /\ \A id \in DOMAIN vs : StoreView(id)' = C10_Expected(StoreView(id), now)]_vars

(* C10 for the in-process adapter alone *)
C10_DecayAppliedInProcess ==
    [][(last'.op = "decay" /\ backend = "memory") =>
          /\ ~last'.threw
          /\ DOMAIN wm' = DOMAIN wm
          /\ DOMAIN vs' = DOMAIN vs
          /\ \A id \in DOMAIN wm : wm'[id] = C10_Expected(wm[id], now)
          /\ \A id \in DOMAIN vs : StoreView(id)' = C10_Expected(StoreView(id), now)]_vars

(* The layer the rebalance table of C11 gives the record m at time t *)
C11_Layer(m, t) ==
    LET score == calculateMemoryScore(m, t)
        age == t - m.timestamp
    IN IF age > Ttl(m.layer) /\ score < DemoteScore
       THEN (IF m.layer = SHORT_TERM THEN WORKING ELSE m.layer)
       ELSE IF score > PromoteScore /\ m.layer # LONG_TERM THEN LONG_TERM
       ELSE m.layer

(* C11: in a run where no backend call has failed before it,               *)
(* rebalanceLayers completes and afterwards the vector store reports every *)
(* record in the layer that the table (demote an expired low-score         *)
(* short-term record to working, promote a high-score record to long-term, *)
(* otherwise keep) gives it.                                               *)
C11_RebalanceTable ==
    [][(last'.op = "rebalance" /\ ~faulted) =>
          /\ ~last'.threw
          /\ DOMAIN vs' = DOMAIN vs
          /\ \A id \in DOMAIN vs :
                StoreView(id)'.layer = C11_Layer(StoreView(id), now)]_vars

(* C11 for the in-process and the Weaviate adapter *)
C11_RebalanceTableWithVectors ==
    [][(last'.op = "rebalance" /\ ~faulted /\ backend # "pinecone") =>
          /\ ~last'.threw
          /\ DOMAIN vs' = DOMAIN vs
          /\ \A id \in DOMAIN vs :
                StoreView(id)'.layer = C11_Layer(StoreView(id), now)]_vars

(* C12: in a run where no backend call has failed, forget({memoryId: id})  *)
(* of a stored id returns deleted = [id] and get(id) is null afterwards;   *)
(* forget of an id that is not stored (never stored, or forgotten before)  *)
(* returns deleted = [].                                                   *)
C12_ForgetById ==
    [][(last'.op = "forget" /\ last'.id # NoId /\ ~faulted) =>
          \A id \in Ids :
              id = last'.id =>
                 IF id \in Known
                 THEN last'.ret = <<id>> /\ ~mgrGet(Engine, id, now)'.found
                 ELSE last'.ret = <<>>]_vars

(* C12 for the in-process and the Weaviate adapter *)
C12_ForgetByIdDeleting ==
    [][(last'.op = "forget" /\ last'.id # NoId /\ ~faulted /\ backend # "pinecone") =>
          \A id \in Ids :
              id = last'.id =>
                 IF id \in Known
                 THEN last'.ret = <<id>> /\ ~mgrGet(Engine, id, now)'.found
                 ELSE last'.ret = <<>>]_vars

----------------------------------------------------------------------------
(* memory_forget by criteria, every combination of olderThan and layer     *)

(* The number of tool calls and clock advances of a run of SpecF *)
MaxOpsF == 4

ForgetCriteria ==
    { [memoryId |-> NoId, olderThan |-> ot, layer |-> l] :
        ot \in {NoTime, 0, now}, l \in {NoLayer, WORKING, SHORT_TERM} }

StepF ==
    /\ steps < MaxOpsF
    /\ steps' = steps + 1
    /\ UNCHANGED <<backend, calls>>

(* handleMemoryForget: a call with no truthy criterion is answered with an *)
(* error and forget is not called                                          *)
handleMemoryForget(e, fo, t) ==
    IF fo.memoryId = NoId /\ ~Truthy(fo.olderThan) /\ fo.layer = NoLayer
    THEN [e |-> e, deleted |-> <<>>, isError |-> TRUE]
    ELSE LET r == mgrForget(e, fo.memoryId, fo.olderThan, fo.layer, t)
         IN [e |-> r.e, deleted |-> r.deleted, isError |-> FALSE]

StoreF(o) ==
    /\ StepF
    /\ LET e == mgrStore(Engine, nextId, o.content, o, now, TRUE)
       IN /\ Commit(e)
          /\ last' = Done("store", e, nextId, <<>>, <<>>, NoSearch)
    /\ nextId' = nextId + 1
    /\ UNCHANGED now

TickF(d) ==
    /\ StepF
    /\ now' = now + d
    /\ last' = Done("tick", Engine, 0, <<>>, <<>>, NoSearch)
    /\ UNCHANGED <<vs, wm, alias, nextId, faulted>>

ForgetF(fo) ==
    /\ StepF
    /\ LET r == handleMemoryForget(Engine, fo, now)
       IN /\ Commit(r.e)
          /\ last' = Done("forget", r.e, fo.memoryId, r.deleted, <<>>, NoSearch)
                        @@ [options |-> fo, isError |-> r.isError]
    /\ UNCHANGED <<now, nextId>>

NextF ==
    \/ \E o \in StoreInputs : StoreF(o)
    \/ \E d \in TimeSteps : TickF(d)
    \/ \E fo \in ForgetCriteria : ForgetF(fo)

SpecF == Init /\ [][NextF]_vars

(* The records C13 says forget with the criteria fo deletes *)
C13_Selected(fo) ==
    { id \in DOMAIN vs :
        /\ fo.layer = NoLayer \/ StoreView(id).layer = fo.layer
        /\ fo.olderThan = NoTime \/ StoreView(id).timestamp < fo.olderThan }

(* C13: forget by criteria deletes exactly the records of the layer (all   *)
(* layers when absent) with timestamp < olderThan (all of them when        *)
(* olderThan is absent), for every supplied olderThan including 0; it      *)
(* returns their ids, leaves the other records as they were in the vector  *)
(* store and the cache, and a later list has none of the returned ids.     *)
C13_ForgetByCriteria ==
    [][(last'.op = "forget" /\ ~last'.isError) =>
          \A fo \in ForgetCriteria :
              fo = last'.options =>
                 /\ Range(last'.ret) = C13_Selected(fo)
                 /\ DOMAIN vs' = DOMAIN vs \ C13_Selected(fo)
                 /\ DOMAIN wm' = DOMAIN wm \ C13_Selected(fo)
                 /\ \A id \in DOMAIN vs' : vs'[id] = vs[id]
                 /\ \A id \in DOMAIN wm' : wm'[id] = wm[id]
                 /\ Range(VsListIds(backend, vs, fo.layer, <<>>)') \cap Range(last'.ret) = {}]_vars

(* C13 for a truthy or absent olderThan on the in-process and the Weaviate *)
(* adapter                                                                 *)
C13_ForgetByCriteriaNonZero ==
    [][(last'.op = "forget" /\ ~last'.isError /\ backend # "pinecone") =>
          \A fo \in ForgetCriteria :
              (fo = last'.options /\ fo.olderThan # 0) =>
                 /\ Range(last'.ret) = C13_Selected(fo)
                 /\ DOMAIN vs' = DOMAIN vs \ C13_Selected(fo)
                 /\ DOMAIN wm' = DOMAIN wm \ C13_Selected(fo)
                 /\ \A id \in DOMAIN vs' : vs'[id] = vs[id]
                 /\ \A id \in DOMAIN wm' : wm'[id] = wm[id]
                 /\ Range(VsListIds(backend, vs, fo.layer, <<>>)') \cap Range(last'.ret) = {}]_vars

----------------------------------------------------------------------------
(* memory_consolidate on a store of old short-term records                 *)

(* How many records of each kind a run of SpecC stores, and how many       *)
(* consolidation calls it makes                                            *)
NumA == 6
NumB == 4
MaxConsolidations == 1

TOPIC_A == "topic-A"
TOPIC_B == "topic-B"

FortyDays == 40 * MinutesPerDay
ThirtyDays == 30 * MinutesPerDay

(* The records of a run: importance 0.6 with primary tag topic-A or        *)
(* topic-B; all land in short-term                                         *)
PlainA == [content |-> "a", importance |-> 6000, tags |-> <<TOPIC_A>>, source |-> NoSource,
           layer |-> NoLayer]
PlainB == [content |-> "b", importance |-> 6000, tags |-> <<TOPIC_B>>, source |-> NoSource,
           layer |-> NoLayer]

Stored(o) ==
    Cardinality({id \in DOMAIN vs : vs[id].importance = o.importance /\ vs[id].tags = o.tags})

Quota(o) == IF o = PlainA THEN NumA ELSE NumB

StoreC(o) ==
    /\ now = Start
    /\ Stored(o) < Quota(o)
    /\ LET e == mgrStore(Engine, nextId, o.content, o, now, TRUE)
       IN /\ Commit(e)
          /\ last' = Done("store", e, nextId, <<>>, <<>>, NoSearch)
    /\ nextId' = nextId + 1
    /\ UNCHANGED <<now, steps, backend, calls>>

TickC ==
    /\ now = Start
    /\ now' = now + FortyDays
    /\ last' = Done("tick", Engine, 0, <<>>, <<>>, NoSearch)
    /\ UNCHANGED <<vs, wm, alias, nextId, faulted, steps, backend, calls>>

(* consolidate({olderThan: now - 30 days, targetSize}) on short-term *)
ConsolidateC(targetSize) ==
    /\ now # Start
    /\ steps < MaxConsolidations
    /\ steps' = steps + 1
    /\ LET c == mgrConsolidate(Engine, now - ThirtyDays, targetSize, SHORT_TERM, now,
                               nextId, 0)
       IN /\ Commit(c.e)
          /\ nextId' = c.nid
          /\ last' = Done("consolidate", c.e, 0, c.deleted, <<>>, NoSearch)
                        @@ [consolidated |-> c.consolidated, targetSize |-> targetSize,
                            summary |-> c.summary]
    /\ UNCHANGED <<now, backend, calls>>

TargetSizes == {3, DefaultTargetSize}

NextC ==
    \/ \E o \in {PlainA, PlainB} : StoreC(o)
    \/ TickC
    \/ \E ts \in TargetSizes : ConsolidateC(ts)

SpecC == Init /\ [][NextC]_vars

(* The candidates of consolidate({olderThan: now - 30 days}) on short-term *)
OldShortTerm == Candidates(Engine, now - ThirtyDays, SHORT_TERM, now)

WithTag(ids, tag) == {id \in ids : PrimaryTag(VsListed(backend, vs, id, now)) = tag}

(* 10 candidates of importance 0.6 and accessCount 0, stored 40 days ago,  *)
(* 6 with primary tag topic-A and 4 with primary tag topic-B, and          *)
(* consolidate called with targetSize 3                                    *)
C14_Case ==
    /\ last'.op = "consolidate"
    /\ last'.targetSize = 3
    /\ Len(OldShortTerm) = 10
    /\ Cardinality(WithTag(Range(OldShortTerm), TOPIC_A)) = 6
    /\ Cardinality(WithTag(Range(OldShortTerm), TOPIC_B)) = 4
    /\ \A id \in Range(OldShortTerm) :
           LET m == VsListed(backend, vs, id, now)
           IN m.importance = 6000 /\ m.accessCount = 0 /\ m.timestamp = now - FortyDays

(* C14: with 10 short-term candidates 40 days old, of importance 0.6 and   *)
(* accessCount 0, 6 of primary tag topic-A and 4 of topic-B,               *)
(* consolidate({olderThan: now - 30 days, targetSize: 3}) creates 2        *)
(* consolidated records and returns 10 deleted ids.                        *)
C14_AllTenDeleted ==
    [][C14_Case => Len(last'.consolidated) = 2 /\ Len(last'.ret) = 10]_vars

(* C14, amended: in that scenario the first 3 candidates in score order    *)
(* are retained, so consolidate returns 5, 6 or 7 deleted ids, all of them *)
(* candidates; it creates 2 consolidated records when 7 are deleted and 1  *)
(* otherwise; every consolidated record is in layer long-term; and the     *)
(* candidates not returned as deleted are still stored, unchanged.         *)
C14_ThreeRetained ==
    [][C14_Case =>
          /\ ~last'.threw
          /\ Len(last'.ret) \in 5..7
          /\ Range(last'.ret) \subseteq Range(OldShortTerm)
          /\ Cardinality(Range(last'.ret)) = Len(last'.ret)
          /\ Len(last'.consolidated) = (IF Len(last'.ret) = 7 THEN 2 ELSE 1)
          /\ \A id \in Range(last'.consolidated) :
                 /\ id \notin Known
                 /\ mgrGet(Engine, id, now)'.found
                 /\ mgrGet(Engine, id, now)'.m.layer = LONG_TERM
          /\ \A id \in Range(OldShortTerm) \ Range(last'.ret) :
                 id \in DOMAIN vs' /\ vs'[id] = vs[id]]_vars

(* Ten records were stored; consolidate with targetSize 3 deleted 7 of     *)
(* them and created the records 11 and 12                                  *)
C14_TwoGroups ==
    /\ last.op = "consolidate"
    /\ last.targetSize = 3
    /\ Len(last.ret) = 7
    /\ last.consolidated = <<11, 12>>

(* The candidates in the order consolidate sorts them, the retain set and  *)
(* the consolidation set for a target size                                 *)
SortedOld ==
    SortDesc(OldShortTerm,
             [id \in Range(OldShortTerm) |->
                  calculateMemoryScore(VsListed(backend, vs, id, now), now)])

RetainSet(targetSize) == Range(SubSeq(SortedOld, 1, targetSize))

ConsolidationSet(targetSize) == Range(OldShortTerm) \ RetainSet(targetSize)

(* The groups of the consolidation set with at least 3 members, by tag *)
BigGroupTags(targetSize) ==
    {tag \in {PrimaryTag(VsListed(backend, vs, id, now)) : id \in ConsolidationSet(targetSize)} :
        Cardinality(WithTag(ConsolidationSet(targetSize), tag)) >= MinGroupSize}

BigGroupMembers(targetSize) ==
    UNION {WithTag(ConsolidationSet(targetSize), tag) : tag \in BigGroupTags(targetSize)}

C15_Outcome(targetSize) ==
    /\ ~last'.threw
    /\ RetainSet(targetSize) \cap Range(last'.ret) = {}
    /\ RetainSet(targetSize) \subseteq DOMAIN vs'
    /\ Range(last'.ret) = BigGroupMembers(targetSize)
    /\ Cardinality(Range(last'.ret)) = Len(last'.ret)
    /\ Len(last'.consolidated) = Cardinality(BigGroupTags(targetSize))
    /\ Cardinality(Range(last'.consolidated)) = Len(last'.consolidated)
    /\ \A tag \in BigGroupTags(targetSize) :
           \E id \in Range(last'.consolidated) :
               /\ id \notin Known
               /\ mgrGet(Engine, id, now)'.found
               /\ mgrGet(Engine, id, now)'.m.layer = LONG_TERM
               /\ mgrGet(Engine, id, now)'.m.source = SYSTEM
               /\ {tag, CONSOLIDATED} \subseteq Range(mgrGet(Engine, id, now)'.m.tags)
    /\ \A id \in BigGroupMembers(targetSize) :
           id \notin DOMAIN vs' /\ id \notin DOMAIN wm'
    /\ \A id \in Range(OldShortTerm) \ BigGroupMembers(targetSize) :
           /\ id \in DOMAIN vs' /\ vs'[id] = vs[id]
           /\ id \in DOMAIN wm => id \in DOMAIN wm' /\ wm'[id] = wm[id]

(* C15: when consolidate proceeds (at least targetSize candidates) the     *)
(* targetSize highest-scoring candidates are never deleted; the others are *)
(* partitioned by primary tag; each group of 3 or more is replaced by      *)
(* exactly one new record (fresh id, long-term, source system, tags with   *)
(* the group's tag and "consolidated") and its members are deleted from    *)
(* the vector store and the cache; smaller groups stay in place; deleted   *)
(* is exactly the set of members of the groups of 3 or more and            *)
(* consolidated has one entry per such group.                              *)
C15_Consolidation ==
    [][\A ts \in TargetSizes :
          (last'.op = "consolidate" /\ last'.targetSize = ts /\ Len(OldShortTerm) >= ts)
              => C15_Outcome(ts)]_vars

(* The same on the adapters whose deleteBatch removes the records *)
C15_ConsolidationDeleting ==
    [][\A ts \in TargetSizes :
          (/\ last'.op = "consolidate" /\ last'.targetSize = ts /\ Len(OldShortTerm) >= ts
           /\ backend # "pinecone")
              => C15_Outcome(ts)]_vars

(* C16: if fewer than targetSize records of the layer are older than       *)
(* olderThan, consolidate returns consolidated = [] and deleted = [] with  *)
(* the summary that says so, and leaves the vector store and the cache     *)
(* unchanged.                                                              *)
C16_TooFewCandidates ==
    [][(last'.op = "consolidate" /\ Len(OldShortTerm) < last'.targetSize) =>
          /\ ~last'.threw
          /\ last'.consolidated = <<>>
          /\ last'.ret = <<>>
          /\ last'.summary = SUMMARY_NOT_ENOUGH
          /\ vs' = vs
          /\ wm' = wm
          /\ nextId' = nextId]_vars

(* A consolidate call that found some candidates, but fewer than asked *)
C16_SomeButTooFew ==
    /\ last.op = "consolidate"
    /\ last.summary = SUMMARY_NOT_ENOUGH
    /\ Len(OldShortTerm) > 0
    /\ Len(OldShortTerm) < last.targetSize

(* C17: store places the new record in options.layer when it is supplied, *)
(* and otherwise in long-term when importance >= 0.8, in short-term when   *)
(* 0.5 <= importance < 0.8 and in working when importance < 0.5, the       *)
(* importance being 0.5 (hence short-term) when absent.                    *)
C17_Layer(o) ==
    IF o.layer # NoLayer THEN o.layer
    ELSE IF o.importance = NoImportance THEN SHORT_TERM
    ELSE IF o.importance >= 8000 THEN LONG_TERM
    ELSE IF o.importance >= 5000 THEN SHORT_TERM
    ELSE WORKING

C17_InitialLayer ==
    [][(last'.op = "store" /\ ~last'.threw) =>
          \A id \in 1..MaxOpsS : id = last'.id =>
              /\ last'.r.layer = C17_Layer(last'.options)
              /\ id \in DOMAIN vs' /\ StoreView(id)'.layer = C17_Layer(last'.options)
              /\ mgrGet(Engine, id, now)'.m.layer = C17_Layer(last'.options)]_vars

(* A store of importance exactly 0.8 without a layer, placed in long-term *)
C17_AtThreshold ==
    /\ last.op = "store"
    /\ ~last.threw
    /\ last.options.layer = NoLayer
    /\ last.options.importance = LongTermThreshold
    /\ last.r.layer = LONG_TERM

(* C18: after r = store(x, o) succeeds, get(r.id) returns a record whose   *)
(* content is x and whose metadata equals r.metadata, where r has          *)
(* accessCount 0, lastAccessed = timestamp, importance o.importance or     *)
(* 0.5, source o.source or agent, and tags o.tags or [].                   *)
C18_StoreThenGet ==
    [][(last.op = "store" /\ ~last.threw /\ last'.op = "get" /\ last'.id = last.id) =>
          LET o == last.options
              r == last.r
              g == last'.got
          IN /\ r.accessCount = 0
             /\ r.lastAccessed = r.timestamp
             /\ r.timestamp = now
             /\ r.importance = (IF o.importance = NoImportance THEN 5000 ELSE o.importance)
             /\ r.source = (IF o.source = NoSource THEN AGENT ELSE o.source)
             /\ r.tags = o.tags
             /\ g.found
             /\ g.m.id = r.id
             /\ g.m.content = o.content
             /\ Meta(g.m) = Meta(r)]_vars

(* A get that directly follows the store of the record it asks for, the    *)
(* store having tags and an importance of 0                                *)
C18_GetAfterStore ==
    /\ last.op = "get"
    /\ last.id = nextId - 1
    /\ last.got.found
    /\ last.got.m.importance = 0
    /\ last.got.m.tags # <<>>

(* C19: search(query, {limit, minRelevance}) returns at most limit         *)
(* results, each of relevance >= minRelevance, ordered by relevance        *)
(* descending; at the tool boundary a call with limit < 1 or limit > 100   *)
(* is rejected with an error and performs no search.                       *)
C19_Rejected(a) == a.limit # NoLimit /\ (a.limit < 1 \/ a.limit > 100)

C19_SearchBounds ==
    [][last'.op = "search" =>
          LET a == last'.args
              ret == last'.ret
              limit == IF a.limit = NoLimit THEN 10 ELSE a.limit
              minRelevance == IF a.minRelevance = NoRelevance THEN 0 ELSE a.minRelevance
              rel(i) == Relevance(last'.q, vs[ret[i]].content)
          IN IF C19_Rejected(a)
             THEN /\ last'.isError
                  /\ ~last'.searched
                  /\ ret = <<>>
                  /\ vs' = vs /\ wm' = wm
             ELSE /\ ~last'.isError
                  /\ last'.searched
                  /\ Len(ret) <= limit
                  /\ Range(ret) \subseteq DOMAIN vs
                  /\ \A i \in 1..Len(ret) : rel(i) >= minRelevance
                  /\ \A i \in 1..Len(ret), j \in 1..Len(ret) : i < j => rel(i) >= rel(j)]_vars

(* A search with limit 1 and a minimum relevance that returned one of two  *)
(* stored records                                                          *)
C19_Truncated ==
    /\ last.op = "search"
    /\ last.args.limit = 1
    /\ last.args.minRelevance = 5000
    /\ Len(last.ret) = 1
    /\ Cardinality({id \in DOMAIN vs : Relevance(last.q, vs[id].content) >= 5000}) = 2

----------------------------------------------------------------------------
(* Calls in progress at the same time.  Every await of a call is a point   *)
(* where another call can run: a search is one step per vectorStore.get    *)
(* and one per vectorStore.update of updateAccessCount; applyImportance-   *)
(* Decay and rebalanceLayers are one step for list() (at the start) and    *)
(* one per record of their loop.  The adapters are the two whose get and   *)
(* list return copies.                                                     *)

MaxOpsI == 4
MaxCalls == 2

RemoteBackends == Backends \ {"memory"}

StoreOptionsI ==
    { [content |-> "a", importance |-> 6000, tags |-> <<>>, source |-> NoSource,
       layer |-> NoLayer],
      [content |-> "a", importance |-> 9000, tags |-> <<>>, source |-> NoSource,
       layer |-> WORKING] }

CallKinds == {"search", "decay", "rebalance"}

InitI == Init /\ backend \in RemoteBackends

StepI ==
    /\ steps < MaxOpsI
    /\ steps' = steps + 1
    /\ UNCHANGED backend

StoreI(o) ==
    /\ StepI
    /\ calls.begun = 0
    /\ LET e == mgrStore(Engine, nextId, o.content, o, now, TRUE)
       IN /\ Commit(e)
          /\ last' = Done("store", e, nextId, <<>>, <<>>, NoSearch)
    /\ nextId' = nextId + 1
    /\ UNCHANGED <<now, calls>>

TickI(d) ==
    /\ StepI
    /\ calls.begun = 0
    /\ now = Start
    /\ now' = now + d
    /\ last' = Done("tick", Engine, 0, <<>>, <<>>, NoSearch)
    /\ UNCHANGED <<vs, wm, alias, nextId, faulted, calls>>

(* The call starts: search awaits vectorStore.search, the two maintenance  *)
(* calls await vectorStore.list, whose result is a snapshot of the store   *)
BeginCall(kind) ==
    /\ StepI
    /\ calls.begun < MaxCalls
    /\ LET k == calls.begun + 1
           ids == IF kind = "search"
                  THEN SearchHits(Engine, <<"a">>, DefaultLimit, 0, <<>>, <<>>)
                  ELSE VsListIds(backend, vs, NoLayer, <<>>)
           c == [kind |-> kind, ids |-> ids, i |-> 1,
                 phase |-> IF kind = "search" THEN "get" ELSE "write",
                 m |-> <<>>, ref |-> "none",
                 snap |-> IF kind = "search" THEN <<>> ELSE vs]
       IN /\ calls' = [calls EXCEPT
                          !.open = IF ids = <<>> THEN calls.open ELSE Put(calls.open, k, c),
                          !.begun = k,
                          !.base = IF calls.begun = 0 THEN vs ELSE calls.base,
                          !.writes = IF calls.begun = 0 THEN [id \in DOMAIN vs |-> <<>>]
                                     ELSE calls.writes]
          /\ last' = Done(kind, Engine, 0, <<>>, <<>>, NoSearch) @@ [call |-> k]
    /\ UNCHANGED <<vs, wm, alias, now, nextId, faulted>>

(* The call moves to its next record, or ends after the last one or on a throw *)
Advance(open, k, ok) ==
    IF ok /\ open[k].i < Len(open[k].ids)
    THEN [open EXCEPT ![k] = [@ EXCEPT !.i = @ + 1,
                                      !.phase = IF open[k].kind = "search" THEN "get" ELSE "write",
                                      !.m = <<>>, !.ref = "none"]]
    ELSE Del(open, k)

(* workingMemory.set(id, other object): the searches that hold the cached  *)
(* object of id keep that object, which is no longer the cached one        *)
Detach(open, k, id, replaced) ==
    [j \in DOMAIN open |->
        IF /\ replaced /\ j # k /\ open[j].ref = "cache" /\ open[j].ids[open[j].i] = id
        THEN [open[j] EXCEPT !.m = wm[id], !.ref = "own"]
        ELSE open[j]]

Written(writes, id, kind, wrote) ==
    IF wrote THEN [writes EXCEPT ![id] = Append(@, kind)] ELSE writes

(* updateAccessCount, first half: "const memory = await this.get(id)" *)
SearchGet(k) ==
    /\ k \in DOMAIN calls.open
    /\ calls.open[k].kind = "search" /\ calls.open[k].phase = "get"
    /\ LET c == calls.open[k]
           id == c.ids[c.i]
           g == mgrGet(Engine, id, now)
       IN /\ calls' = [calls EXCEPT !.open =
                          IF g.found
                          THEN [@ EXCEPT ![k] = [c EXCEPT !.phase = "write",
                                                         !.m = IF g.src = "cache" THEN <<>> ELSE g.m,
                                                         !.ref = IF g.src = "cache" THEN "cache"
                                                                 ELSE "own"]]
                          ELSE Advance(@, k, TRUE)]
          /\ last' = Done("search", Engine, id, <<>>, <<>>, NoSearch) @@ [call |-> k]
    /\ UNCHANGED <<backend, vs, wm, alias, now, steps, nextId, faulted>>

(* updateAccessCount, second half: the increment, the cache refresh and    *)
(* "await this.vectorStore.update(memory)" on the object get returned      *)
SearchWrite(k) ==
    /\ k \in DOMAIN calls.open
    /\ calls.open[k].kind = "search" /\ calls.open[k].phase = "write"
    /\ LET c == calls.open[k]
           id == c.ids[c.i]
           src == IF c.ref = "cache" THEN "cache" ELSE "store"
           held == IF c.ref = "cache" THEN wm[id] ELSE c.m
           m2 == [held EXCEPT !.accessCount = held.accessCount + 1, !.lastAccessed = now]
           e1 == Mutate(Engine, id, src, m2)
           e2 == CacheIfPresent(e1, id, src, m2)
           e3 == WriteBack(e2, src, m2, TRUE)
           replaced == c.ref = "own" /\ id \in DOMAIN wm
       IN /\ Commit(e3)
          /\ calls' = [calls EXCEPT !.open = Advance(Detach(@, k, id, replaced), k, e3.ok),
                                    !.writes = Written(@, id, "search", e3.ok)]
          /\ last' = Done("search", e3, id, <<>>, <<>>, NoSearch) @@ [call |-> k]
    /\ UNCHANGED <<backend, now, steps, nextId>>

(* One iteration of the loop of applyImportanceDecay or rebalanceLayers,   *)
(* on the record the call's list() returned                                *)
MaintenanceWrite(k) ==
    /\ k \in DOMAIN calls.open
    /\ calls.open[k].kind # "search"
    /\ LET c == calls.open[k]
           id == c.ids[c.i]
           m == VsListed(backend, c.snap, id, now)
           e == IF c.kind = "decay" THEN DecayOne(Engine, m, now, TRUE)
                ELSE RebalanceOne(Engine, m, now, TRUE)
           updates == IF c.kind = "decay" THEN now - m.timestamp >= MinutesPerDay
                      ELSE RebalanceDecision(m, now).moved
           replaced == updates /\ e.ok /\ id \in DOMAIN wm
       IN /\ Commit(e)
          /\ calls' = [calls EXCEPT !.open = Advance(Detach(@, k, id, replaced), k, e.ok),
                                    !.writes = Written(@, id, c.kind, updates /\ e.ok)]
          /\ last' = Done(c.kind, e, id, <<>>, <<>>, NoSearch) @@ [call |-> k]
    /\ UNCHANGED <<backend, now, steps, nextId>>

NextI ==
    \/ \E o \in StoreOptionsI : StoreI(o)
    \/ \E d \in TimeSteps : TickI(d)
    \/ \E kind \in CallKinds : BeginCall(kind)
    \/ \E k \in 1..MaxCalls : SearchGet(k)
    \/ \E k \in 1..MaxCalls : SearchWrite(k)
    \/ \E k \in 1..MaxCalls : MaintenanceWrite(k)

SpecI == InitI /\ [][NextI]_vars

(* The update one call makes to a record, as a function of the record *)
WriteOf(kind, m, t) ==
    CASE kind = "search" -> [m EXCEPT !.accessCount = m.accessCount + 1, !.lastAccessed = t]
      [] kind = "decay" -> [m EXCEPT !.importance = Decayed(m.importance, t - m.timestamp)]
      [] OTHER -> LET d == RebalanceDecision(m, t) IN IF d.moved THEN d.m ELSE m

(* The records that the updates ws[i], i in I, give in some serial order *)
RECURSIVE SerialResults(_, _, _, _)
SerialResults(m, ws, I, t) ==
    IF I = {} THEN {m}
    ELSE UNION {SerialResults(WriteOf(ws[i], m, t), ws, I \ {i}, t) : i \in I}

Quiescent == calls.begun > 0 /\ calls.open = <<>>

(* C20: writes to the same record id are serializable: for any            *)
(* interleaving of a search's access-count write-back with another search, *)
(* applyImportanceDecay or rebalanceLayers on the same id, on a backend    *)
(* whose get and list return copies, the stored record once the calls have *)
(* ended is the result of applying their writes in some serial order; no   *)
(* update is lost.                                                         *)
C20_Serializable ==
    Quiescent =>
        \A id \in DOMAIN calls.writes :
            "search" \in Range(calls.writes[id]) =>
              Meta(StoreView(id)) \in
                {Meta(r) : r \in SerialResults(VsGet(backend, calls.base, id, now),
                                               calls.writes[id],
                                               1..Len(calls.writes[id]), now)}

(* Two searches in progress together on records held by the cache: both   *)
(* increments reach the store                                              *)
C20_SearchesCounted ==
    Quiescent =>
        \A id \in DOMAIN calls.writes :
            Range(calls.writes[id]) \subseteq {"search"} =>
                StoreView(id).accessCount =
                    VsGet(backend, calls.base, id, now).accessCount + Len(calls.writes[id])

----------------------------------------------------------------------------
(* MemoryScheduler: three interval timers whose callbacks run an iteration *)
(* of applyImportanceDecay, of rebalanceLayers or of the consolidation     *)
(* check.  A callback is async: it starts when its timer fires and goes on *)
(* at each await, one record of its loop per step.                         *)

MaxOpsT == 4
ConsolidationThreshold == 1
StatsLimit == 10000

StoreOptionsT ==
    { [content |-> "a", importance |-> 6000, tags |-> <<>>, source |-> NoSource,
       layer |-> NoLayer],
      [content |-> "a", importance |-> 9000, tags |-> <<>>, source |-> NoSource,
       layer |-> NoLayer] }

(* A decay or rebalance pass on the in-process adapter awaits only         *)
(* promises that are already resolved: no timer, request or signal handler *)
(* runs before its last record                                             *)
InPass ==
    /\ backend = "memory"
    /\ \E k \in DOMAIN calls.open : calls.open[k].kind \in {"decay", "rebalance"}

StepT ==
    /\ steps < MaxOpsT
    /\ ~InPass
    /\ last.op # "exit"
    /\ steps' = steps + 1
    /\ UNCHANGED backend

StoreT(o) ==
    /\ StepT
    /\ ~calls.closed
    /\ LET e == mgrStore(Engine, nextId, o.content, o, now, TRUE)
       IN /\ Commit(e)
          /\ last' = Done("store", e, nextId, <<>>, <<>>, NoSearch)
    /\ nextId' = nextId + 1
    /\ UNCHANGED <<now, calls>>

TickT(d) ==
    /\ StepT
    /\ now = Start
    /\ calls.open = <<>>
    /\ now' = now + d
    /\ last' = Done("tick", Engine, 0, <<>>, <<>>, NoSearch)
    /\ UNCHANGED <<vs, wm, alias, nextId, faulted, calls>>

(* The callback of setInterval starts: nothing but the timer decides it *)
TimerFire(task) ==
    /\ StepT
    /\ task \in calls.timers
    /\ LET k == calls.begun + 1
           ids == IF task = "check" THEN <<0>> ELSE VsListIds(backend, vs, NoLayer, <<>>)
           c == [kind |-> task, ids |-> ids, i |-> 1,
                 phase |-> IF task = "check" THEN "stats" ELSE "write",
                 m |-> <<>>, ref |-> "none",
                 snap |-> IF task = "check" THEN <<>> ELSE vs]
       IN /\ calls' = [calls EXCEPT
                          !.open = IF ids = <<>> THEN calls.open ELSE Put(calls.open, k, c),
                          !.begun = k]
          /\ last' = Done("fire", Engine, 0, <<>>, <<>>, NoSearch)
                        @@ [call |-> k, task |-> task, ended |-> ids = <<>>]
    /\ UNCHANGED <<vs, wm, alias, now, nextId, faulted>>

(* The record of the listed snapshot the loop is at: the in-process        *)
(* adapter lists the stored objects themselves                             *)
PassRecord(c, id) ==
    IF backend = "memory"
    THEN (IF id \in DOMAIN vs THEN vs[id] ELSE c.snap[id])
    ELSE VsListed(backend, c.snap, id, now)

PassUpdates(c, m) ==
    IF c.kind = "decay" THEN now - m.timestamp >= MinutesPerDay
    ELSE RebalanceDecision(m, now).moved

(* One iteration of the loop; update of the in-process adapter throws for  *)
(* an id its map no longer holds                                           *)
PassEffect(c, m, net) ==
    IF backend = "memory" /\ m.id \notin DOMAIN vs
    THEN (IF PassUpdates(c, m) THEN [Engine EXCEPT !.ok = FALSE, !.err = TRUE] ELSE Engine)
    ELSE IF c.kind = "decay" THEN DecayOne(Engine, m, now, net)
    ELSE RebalanceOne(Engine, m, now, net)

(* A callback without the try/catch: the rejection is unhandled and the    *)
(* process ends                                                            *)
EndIteration_Uncaught(c, k, ok) ==
    IF ok THEN [c EXCEPT !.open = Advance(@, k, ok)]
    ELSE [c EXCEPT !.open = <<>>, !.timers = {}]

(* try { await ... } catch (error) { console.error(...) }: the callback    *)
(* ends, on its last record or on a throw, and nothing else changes        *)
EndIteration(c, k, ok) == [c EXCEPT !.open = Advance(@, k, ok)]

PassStep(k, net) ==
    /\ k \in DOMAIN calls.open
    /\ calls.open[k].kind \in {"decay", "rebalance"}
    /\ LET c == calls.open[k]
           id == c.ids[c.i]
           e == PassEffect(c, PassRecord(c, id), net)
       IN /\ Commit(e)
          /\ calls' = EndIteration(calls, k, e.ok)
          /\ last' = Done(c.kind, e, id, <<>>, <<>>, NoSearch)
                        @@ [call |-> k, task |-> c.kind,
                            ended |-> ~e.ok \/ c.i = Len(c.ids)]
    /\ UNCHANGED <<backend, now, steps, nextId>>

(* getConsolidationStats: two searches with the empty query *)
StatsOf(short, long) ==
    IF ~short.e.ok THEN [e |-> short.e, shortTermCount |-> 0]
    ELSE [e |-> long.e, shortTermCount |-> Len(short.ret)]

StatsAfter(short, t) ==
    StatsOf(short, mgrSearch(short.e, <<>>, StatsLimit, 0, <<LONG_TERM>>, <<>>, t, NoFailure))

getConsolidationStats(e, t, f) ==
    StatsAfter(mgrSearch(e, <<>>, StatsLimit, 0, <<SHORT_TERM>>, <<>>, t, f), t)

(* The consolidation check up to its decision *)
CheckStats(k, f) ==
    /\ k \in DOMAIN calls.open
    /\ calls.open[k].kind = "check" /\ calls.open[k].phase = "stats"
    /\ ~InPass
    /\ \E r \in {getConsolidationStats(Engine, now, f)} :
         \E goes \in {r.e.ok /\ r.shortTermCount > ConsolidationThreshold} :
          /\ Commit(r.e)
          /\ calls' = IF goes
                      THEN [calls EXCEPT !.open = Put(@, k, [@[k] EXCEPT !.phase = "consolidate"])]
                      ELSE EndIteration(calls, k, r.e.ok)
          /\ last' = Done("check", r.e, 0, <<>>, <<>>, NoSearch)
                        @@ [call |-> k, task |-> "check", ended |-> ~goes,
                            count |-> r.shortTermCount, consolidates |-> goes,
                            injected |-> f # NoFailure]
    /\ UNCHANGED <<backend, now, steps, nextId>>

(* consolidate({layer: short-term, targetSize: threshold}) of the check *)
CheckConsolidate(k) ==
    /\ k \in DOMAIN calls.open
    /\ calls.open[k].kind = "check" /\ calls.open[k].phase = "consolidate"
    /\ ~InPass
    /\ LET c == mgrConsolidate(Engine, NoTime, ConsolidationThreshold, SHORT_TERM, now,
                               nextId, 0)
       IN /\ Commit(c.e)
          /\ nextId' = c.nid
          /\ calls' = EndIteration(calls, k, c.e.ok)
          /\ last' = Done("consolidate", c.e, 0, c.deleted, <<>>, NoSearch)
                        @@ [call |-> k, task |-> "check", ended |-> TRUE]
    /\ UNCHANGED <<backend, now, steps>>

(* MemoryScheduler.stop: clearInterval on every timer *)
SchedulerStop ==
    /\ StepT
    /\ calls.timers # {}
    /\ calls' = [calls EXCEPT !.timers = {}]
    /\ last' = Done("stop", Engine, 0, <<>>, <<>>, NoSearch)
    /\ UNCHANGED <<vs, wm, alias, now, nextId, faulted>>

(* MemoryMCPServer.stop, after scheduler.stop(): memoryManager.close() *)
ManagerClose ==
    /\ StepT
    /\ calls.timers = {}
    /\ ~calls.closed
    /\ LET e == mgrClose(Engine)
       IN Commit(e)
    /\ calls' = [calls EXCEPT !.closed = TRUE]
    /\ last' = Done("close", Engine, 0, <<>>, <<>>, NoSearch)
    /\ UNCHANGED <<now, nextId>>

(* The server is started again on the same vector store: a new manager,   *)
(* its cache loaded from listAll, and a new scheduler                      *)
RestartT ==
    /\ steps < MaxOpsT
    /\ steps' = steps + 1
    /\ ~InPass
    /\ vs # <<>>
    /\ LET e == loadWorkingMemory(mgrClose(Engine), now)
       IN Commit(e)
    /\ calls' = NoCalls
    /\ last' = Done("restart", Engine, 0, <<>>, <<>>, NoSearch)
    /\ UNCHANGED <<backend, now, nextId>>

(* The signal handler, after server.stop() has resolved: process.exit(0)  *)
ProcessExit ==
    /\ calls.closed
    /\ last.op # "exit"
    /\ calls' = [calls EXCEPT !.open = <<>>]
    /\ last' = Done("exit", Engine, 0, <<>>, <<>>, NoSearch)
    /\ UNCHANGED <<backend, vs, wm, alias, now, steps, nextId, faulted>>

NextT ==
    \/ \E o \in StoreOptionsT : StoreT(o)
    \/ \E d \in TimeSteps : TickT(d)
    \/ \E task \in Timers : TimerFire(task)
    \/ \E k \in 1..MaxOpsT, net \in NetChoices : PassStep(k, net)
    \/ \E k \in 1..MaxOpsT, f \in FailChoices : CheckStats(k, f)
    \/ \E k \in 1..MaxOpsT : CheckConsolidate(k)
    \/ SchedulerStop
    \/ ManagerClose
    \/ ProcessExit
    \/ RestartT

SpecT == Init /\ [][NextT]_vars

(* C22: scheduled tasks are serialized globally: at most one iteration of  *)
(* a scheduled task (decay, rebalance or consolidation check, two          *)
(* iterations of the same task included) is executing against the          *)
(* MemoryManager at any time.                                              *)
C22_OneIterationAtATime == Cardinality(DOMAIN calls.open) <= 1

ScheduledOps == {"decay", "rebalance", "check", "consolidate"}

(* C23: an error thrown inside one iteration of a scheduled task is caught *)
(* within that iteration: it never leaves the timer callback, the three    *)
(* timers stay set (every later tick of that task and of the other two     *)
(* still runs) and the other iterations in flight go on.                   *)
C23_ErrorsCaught ==
    [][(last'.op \in ScheduledOps /\ last'.threw) =>
          /\ calls'.timers = calls.timers
          /\ \A task \in calls.timers : steps < MaxOpsT => ENABLED TimerFire(task)
          /\ \A k \in DOMAIN calls.open :
                 k # last'.call => k \in DOMAIN calls'.open /\ calls'.open[k] = calls.open[k]]_vars

(* A timer fires after an iteration has thrown *)
C23_FiresAfterError ==
    /\ last.op = "fire"
    /\ faulted
    /\ calls.timers = Timers

(* C24: after Scheduler.stop() the three timers are cancelled and no new   *)
(* iteration ever starts; an iteration in flight at stop() is not aborted: *)
(* it leaves only by its own last step, also when MemoryManager.close()    *)
(* follows scheduler.stop() in the shutdown of the server.                 *)
C24_StopLetsIterationsFinish ==
    [][/\ calls.timers = {} => calls'.timers = {} /\ calls'.begun = calls.begun
       /\ \A k \in DOMAIN calls.open :
             k \notin DOMAIN calls'.open =>
                 /\ last'.op \in ScheduledOps
                 /\ last'.call = k
                 /\ last'.ended]_vars

ShortTermStored == {id \in DOMAIN vs : VsGet(backend, vs, id, now).layer = SHORT_TERM}

(* C25: on each consolidation-check tick the scheduler calls               *)
(* consolidate({layer: short-term, targetSize: threshold}) if and only if  *)
(* the number of short-term records in the store is greater than           *)
(* config.consolidation.threshold (ticks whose requests to the vector      *)
(* store all succeed).                                                     *)
C25_ConsolidatesOverThreshold ==
    [][(last'.op = "check" /\ ~last'.injected) =>
          (last'.consolidates <=> Cardinality(ShortTermStored) > ConsolidationThreshold)]_vars

----------------------------------------------------------------------------
(* The memory_store tool: sanitizeString and handleMemoryStore.  A text is *)
(* a sequence of runs [ch, n]: n characters of one class, "x" a printing   *)
(* character, " " white space, "ctl" a character of the class              *)
(* [\x00-\x08\x0B\x0C\x0E-\x1F\x7F]                                        *)

MaxOpsV == 1
MaxContentLength == 10000

Chars == {"x", " ", "ctl"}

RECURSIVE TextLen(_)
TextLen(t) == IF t = <<>> THEN 0 ELSE Head(t).n + TextLen(Tail(t))

(* input.replace(/[\x00-\x08\x0B\x0C\x0E-\x1F\x7F]/g, '') *)
RemoveControl(t) == SelectSeq(t, LAMBDA r : r.ch # "ctl")

(* sanitized.substring(0, maxLength) *)
RECURSIVE Substring(_, _)
Substring(t, max) ==
    IF t = <<>> \/ max = 0 THEN <<>>
    ELSE IF Head(t).n >= max THEN <<[Head(t) EXCEPT !.n = max]>>
    ELSE <<Head(t)>> \o Substring(Tail(t), max - Head(t).n)

RECURSIVE TrimStart(_)
TrimStart(t) == IF t # <<>> /\ Head(t).ch = " " THEN TrimStart(Tail(t)) ELSE t

RECURSIVE TrimEnd(_)
TrimEnd(t) ==
    IF t # <<>> /\ t[Len(t)].ch = " " THEN TrimEnd(SubSeq(t, 1, Len(t) - 1)) ELSE t

Trim(t) == TrimEnd(TrimStart(t))

(* sanitizeString: [ok = it returned, text]; it throws for a non-string *)
sanitizeString(input, maxLength) ==
    IF ~input.isString THEN [ok |-> FALSE, text |-> <<>>]
    ELSE LET sanitized == RemoveControl(input.text)
             limited == IF TextLen(sanitized) > maxLength
                        THEN Substring(sanitized, maxLength) ELSE sanitized
         IN [ok |-> TRUE, text |-> Trim(limited)]

NoOptions ==
    [importance |-> NoImportance, tags |-> <<>>, source |-> NoSource, layer |-> NoLayer]

(* handleMemoryStore: [e, isError, stored = memoryManager.store was called] *)
handleMemoryStore(e, id, args, t, net) ==
    LET content == sanitizeString(args, MaxContentLength)
        e2 == mgrStore(e, id, content.text, NoOptions, t, net)
    IN IF ~content.ok THEN [e |-> e, isError |-> TRUE, stored |-> FALSE]
       ELSE [e |-> [e2 EXCEPT !.ok = TRUE], isError |-> ~e2.ok, stored |-> TRUE]

Lengths == {1, MaxContentLength - 1, MaxContentLength, MaxContentLength + 1}

Runs == [ch : Chars, n : Lengths]

Texts == {<<>>} \cup {<<r>> : r \in Runs} \cup {<<r1, r2>> : r1 \in Runs, r2 \in Runs}

ContentArgs ==
    {[isString |-> TRUE, text |-> t] : t \in Texts} \cup {[isString |-> FALSE, text |-> <<>>]}

MemoryStoreV(args, net) ==
    /\ steps < MaxOpsV
    /\ steps' = steps + 1
    /\ LET r == handleMemoryStore(Engine, nextId, args, now, net)
       IN /\ Commit(r.e)
          /\ nextId' = IF r.stored THEN nextId + 1 ELSE nextId
          /\ last' = Done("memory_store", r.e, nextId, <<>>, <<>>, NoSearch)
                        @@ [args |-> args, net |-> net, isError |-> r.isError]
    /\ UNCHANGED <<backend, now, calls>>

NextV == \E args \in ContentArgs, net \in NetChoices : MemoryStoreV(args, net)

SpecV == Init /\ [][NextV]_vars

(* Content that sanitizeString has nothing to remove from *)
Plain(t) == RemoveControl(t) = t /\ Trim(t) = t

(* C26: the memory_store boundary accepts content of exactly 10000         *)
(* characters and stores it unmodified in length, and rejects (returns an  *)
(* error and stores nothing) content of 10001 characters and content that  *)
(* is empty after trimming (calls whose request to the vector store        *)
(* succeeds).                                                              *)
C26_ContentLengthBoundary ==
    [][(last'.op = "memory_store" /\ last'.args.isString /\ last'.net) =>
          /\ (TextLen(last'.args.text) = 10000 /\ Plain(last'.args.text)) =>
                /\ ~last'.isError
                /\ \A id \in DOMAIN vs' :
                      id = last'.id => TextLen(vs'[id].content) = 10000
          /\ TextLen(last'.args.text) = 10001 =>
                last'.isError /\ vs' = vs /\ wm' = wm
          /\ Trim(last'.args.text) = <<>> =>
                last'.isError /\ vs' = vs /\ wm' = wm]_vars

----------------------------------------------------------------------------
(* Error texts: sanitizeErrorMessage and the error paths of the tool calls. *)
(* A message is a sequence of segments [shape, quirk, shown]: shape is the  *)
(* sensitive pattern the segment matches ("text" matches none), shown says  *)
(* what the segment shows of its secret.  quirk: for a pattern without a    *)
(* capture group, the match contains the decimal digits of its own offset;  *)
(* for the assignment pattern, the name contains the value.                 *)

MaxOpsR == 1

(* SENSITIVE_PATTERNS in order; group: the pattern has a capture group *)
SENSITIVE_PATTERNS ==
    << [shape |-> "bearer", group |-> TRUE],
       [shape |-> "sk", group |-> FALSE],
       [shape |-> "api_key", group |-> TRUE],
       [shape |-> "authorization", group |-> TRUE],
       [shape |-> "token", group |-> TRUE],
       [shape |-> "mongodb", group |-> FALSE],
       [shape |-> "postgres", group |-> FALSE],
       [shape |-> "mysql", group |-> FALSE],
       [shape |-> "env", group |-> TRUE] >>

(* match.replace(groups[0], '***'): groups[0] is the first capture group,  *)
(* or, for a pattern without one, the offset of the match; replace with a  *)
(* string pattern replaces its first occurrence in the match               *)
ReplaceMatch(seg, pattern) ==
    IF seg.shape # pattern.shape \/ seg.shown # "secret" THEN seg
    ELSE IF pattern.group
         THEN (IF seg.quirk THEN seg ELSE [seg EXCEPT !.shown = "stars"])
         ELSE (IF seg.quirk THEN [seg EXCEPT !.shown = "partial"] ELSE seg)

RECURSIVE ApplyPatterns(_, _)
ApplyPatterns(message, patterns) ==
    IF patterns = <<>> THEN message
    ELSE ApplyPatterns([i \in DOMAIN message |-> ReplaceMatch(message[i], Head(patterns))],
                       Tail(patterns))

sanitizeErrorMessage(message) == ApplyPatterns(message, SENSITIVE_PATTERNS)

PlainText == <<[shape |-> "text", quirk |-> FALSE, shown |-> "none"]>>

(* "Error: " + errorMessage and "Tool execution failed: " + errorMessage *)
ErrorText(errorMessage) == PlainText \o errorMessage

Segments ==
    {PlainText[1]}
       \cup {[shape |-> p.shape, quirk |-> FALSE, shown |-> "secret"] :
                p \in Range(SENSITIVE_PATTERNS)}
       \cup {[shape |-> p.shape, quirk |-> TRUE, shown |-> "secret"] :
                p \in {x \in Range(SENSITIVE_PATTERNS) : ~x.group \/ x.shape = "env"}}

Messages == {<<a>> : a \in Segments} \cup {<<a, b>> : a \in Segments, b \in Segments}

ContentArgsR ==
    { [isString |-> TRUE, text |-> <<[ch |-> "x", n |-> 1]>>],
      [isString |-> FALSE, text |-> <<>>] }

StepR ==
    /\ steps < MaxOpsR
    /\ steps' = steps + 1
    /\ UNCHANGED <<backend, now, calls>>

(* memory_store that fails: sanitizeString throws its own text, or the     *)
(* request of the adapter fails with the message of the client library     *)
MemoryStoreFails(args, message) ==
    /\ StepR
    /\ LET r == handleMemoryStore(Engine, nextId, args, now, FALSE)
       IN /\ r.isError
          /\ r.stored => backend # "memory"
          /\ Commit(r.e)
          /\ nextId' = IF r.stored THEN nextId + 1 ELSE nextId
          /\ last' = Done("memory_store", r.e, nextId, <<>>, <<>>, NoSearch)
                        @@ [message |-> IF r.stored THEN message ELSE PlainText,
                            crossed |-> ErrorText(IF r.stored THEN message ELSE PlainText)]

(* A call of a tool the switch does not know: the name is in the message   *)
UnknownTool(name) ==
    /\ StepR
    /\ last' = Done("unknown_tool", Engine, 0, <<>>, <<>>, NoSearch)
                  @@ [message |-> ErrorText(name),
                      crossed |-> ErrorText(ErrorText(name))]
    /\ UNCHANGED <<vs, wm, alias, nextId, faulted>>

NextR ==
    \/ \E args \in ContentArgsR, message \in Messages : MemoryStoreFails(args, message)
    \/ \E name \in Messages : UnknownTool(name)

SpecR == Init /\ [][NextR]_vars

ToolErrors == {"memory_store", "unknown_tool"}

Exposed(message) == {i \in DOMAIN message : message[i].shown \in {"secret", "partial"}}

(* C27: every error message that crosses the process boundary (the error   *)
(* text of a tool-call result or of a thrown tool error) has passed        *)
(* through the redaction function, and redaction replaces the secret in    *)
(* every sensitive shape it lists, the patterns without a capture group    *)
(* included.                                                               *)
C27_ErrorsRedacted ==
    last.op \in ToolErrors =>
        /\ last.crossed = ErrorText(sanitizeErrorMessage(last.message))
        /\ Exposed(sanitizeErrorMessage(last.message)) = {}

----------------------------------------------------------------------------
(* Calls in progress together, request by request, on the remote adapters. *)
(* A step is what a call does from one await of the vector store to the    *)
(* next: store awaits vectorStore.store after workingMemory.set, forget    *)
(* awaits vectorStore.delete before workingMemory.delete, and the Weaviate *)
(* update awaits its deleter and then its creator.                         *)

BeginStore(o) ==
    /\ StepI
    /\ calls.begun < MaxCalls
    /\ LET k == calls.begun + 1
           m == NewMemory(nextId, o.content, o, now)
           c == [kind |-> "store", ids |-> <<nextId>>, i |-> 1, phase |-> "store",
                 m |-> m, ref |-> "none", snap |-> <<>>]
       IN /\ wm' = Put(wm, nextId, m)
          /\ calls' = [calls EXCEPT !.open = Put(@, k, c), !.begun = k]
          /\ last' = Done("store", Engine, nextId, <<>>, <<>>, NoSearch)
                        @@ [call |-> k, phase |-> "cache"]
    /\ nextId' = nextId + 1
    /\ UNCHANGED <<vs, alias, now, faulted>>

EndStore(k, net) ==
    /\ k \in DOMAIN calls.open
    /\ calls.open[k].kind = "store"
    /\ LET c == calls.open[k]
           r == VsStore(backend, vs, c.m, net)
           e == [Engine EXCEPT !.vs = r.s, !.ok = r.ok, !.err = ~r.ok]
       IN /\ Commit(e)
          /\ calls' = [calls EXCEPT !.open = Advance(@, k, r.ok)]
          /\ last' = Done("store", e, c.m.id, <<>>, <<>>, NoSearch)
                        @@ [call |-> k, phase |-> "store"]
    /\ UNCHANGED <<backend, now, steps, nextId>>

(* forget({memoryId}): the delete request reaches the vector store *)
BeginForget(id) ==
    /\ StepI
    /\ calls.begun < MaxCalls
    /\ id \in DOMAIN vs
    /\ LET k == calls.begun + 1
           d == VsDelete(backend, vs, id)
           c == [kind |-> "forget", ids |-> <<id>>, i |-> 1, phase |-> "uncache",
                 m |-> [success |-> d.ok], ref |-> "none", snap |-> <<>>]
       IN /\ vs' = d.s
          /\ calls' = [calls EXCEPT !.open = Put(@, k, c), !.begun = k]
          /\ last' = Done("forget", Engine, id, <<>>, <<>>, NoSearch)
                        @@ [call |-> k, phase |-> "delete"]
    /\ UNCHANGED <<wm, alias, now, nextId, faulted>>

(* "this.workingMemory.delete(options.memoryId)" and the result *)
EndForget(k) ==
    /\ k \in DOMAIN calls.open
    /\ calls.open[k].kind = "forget"
    /\ LET c == calls.open[k]
           id == c.ids[1]
       IN /\ wm' = Del(wm, id)
          /\ alias' = alias \ {id}
          /\ calls' = [calls EXCEPT !.open = Advance(@, k, TRUE),
                                    !.gone = IF c.m.success THEN @ \cup {id} ELSE @]
          /\ last' = Done("forget", Engine, id,
                          IF c.m.success THEN <<id>> ELSE <<>>, <<>>, NoSearch)
                        @@ [call |-> k, phase |-> "uncache"]
    /\ UNCHANGED <<backend, vs, now, steps, nextId, faulted>>

(* The deleter of the Weaviate update: it fails for an object that is not  *)
(* stored; after it the call awaits the creator with the object m2         *)
Deleter(e, open, k, m2, net) ==
    IF ~net \/ m2.id \notin DOMAIN e.vs
    THEN [e |-> [e EXCEPT !.ok = FALSE, !.err = TRUE], open |-> Advance(open, k, FALSE)]
    ELSE [e |-> [e EXCEPT !.vs = Del(e.vs, m2.id)],
          open |-> [open EXCEPT ![k] = [open[k] EXCEPT !.phase = "create", !.m = m2]]]

(* updateAccessCount of a search, up to the update request *)
BumpStep(k, net) ==
    /\ k \in DOMAIN calls.open
    /\ calls.open[k].kind = "search" /\ calls.open[k].phase = "get"
    /\ LET c == calls.open[k]
           id == c.ids[c.i]
           g == mgrGet(Engine, id, now)
           m2 == [g.m EXCEPT !.accessCount = g.m.accessCount + 1, !.lastAccessed = now]
           e2 == CacheIfPresent(Mutate(Engine, id, g.src, m2), id, g.src, m2)
           e3 == WriteBack(e2, g.src, m2, net)
           r == IF ~g.found THEN [e |-> Engine, open |-> Advance(calls.open, k, TRUE)]
                ELSE IF backend = "weaviate" THEN Deleter(e2, calls.open, k, m2, net)
                ELSE [e |-> e3, open |-> Advance(calls.open, k, e3.ok)]
       IN /\ Commit(r.e)
          /\ calls' = [calls EXCEPT !.open = r.open]
          /\ last' = Done("search", r.e, id, <<>>, <<>>, NoSearch)
                        @@ [call |-> k, phase |-> "update"]
    /\ UNCHANGED <<backend, now, steps, nextId>>

(* One record of applyImportanceDecay or rebalanceLayers, up to the update *)
(* request                                                                 *)
LoopStep(k, net) ==
    /\ k \in DOMAIN calls.open
    /\ calls.open[k].kind \in {"decay", "rebalance"} /\ calls.open[k].phase = "write"
    /\ LET c == calls.open[k]
           id == c.ids[c.i]
           m == VsListed(backend, c.snap, id, now)
           m2 == IF c.kind = "decay"
                 THEN [m EXCEPT !.importance = Decayed(m.importance, now - m.timestamp)]
                 ELSE RebalanceDecision(m, now).m
           e == IF c.kind = "decay" THEN DecayOne(Engine, m, now, net)
                ELSE RebalanceOne(Engine, m, now, net)
           r == IF backend = "weaviate" /\ PassUpdates(c, m)
                THEN Deleter(Engine, calls.open, k, m2, net)
                ELSE [e |-> e, open |-> Advance(calls.open, k, e.ok)]
       IN /\ Commit(r.e)
          /\ calls' = [calls EXCEPT !.open = r.open]
          /\ last' = Done(c.kind, r.e, id, <<>>, <<>>, NoSearch)
                        @@ [call |-> k, phase |-> "update", net |-> net,
                            changed |-> id \notin DOMAIN vs \/ vs[id] # c.snap[id],
                            more |-> c.i < Len(c.ids)]
    /\ UNCHANGED <<backend, now, steps, nextId>>

(* The creator of the Weaviate update, and what the call does after it *)
CreateStep(k, net) ==
    /\ k \in DOMAIN calls.open
    /\ calls.open[k].phase = "create"
    /\ LET c == calls.open[k]
           id == c.ids[c.i]
           ok == net /\ id \notin DOMAIN vs
           e1 == [Engine EXCEPT !.vs = IF ok THEN Put(vs, id, c.m) ELSE vs,
                                !.ok = ok, !.err = ~ok]
           e2 == IF ok /\ c.kind # "search" THEN CacheIfPresent(e1, id, "store", c.m) ELSE e1
       IN /\ Commit(e2)
          /\ calls' = [calls EXCEPT !.open = Advance(@, k, ok)]
          /\ last' = Done(c.kind, e2, id, <<>>, <<>>, NoSearch)
                        @@ [call |-> k, phase |-> "create", net |-> net, changed |-> FALSE,
                            more |-> c.i < Len(c.ids)]
    /\ UNCHANGED <<backend, now, steps, nextId>>

(* A reader: vectorStore.get(id) of a call that is not one of the above *)
ReadJ(id) ==
    /\ StepI
    /\ id < nextId
    /\ calls.open # <<>>
    /\ last' = Done("get", Engine, id, <<>>, <<>>, NoSearch)
                  @@ [found |-> id \in DOMAIN vs,
                      updating |-> \E k \in DOMAIN calls.open :
                                      calls.open[k].phase = "create"
                                         /\ calls.open[k].ids[calls.open[k].i] = id]
    /\ UNCHANGED <<vs, wm, alias, now, nextId, faulted, calls>>

NextJ ==
    \/ \E o \in StoreOptionsI : StoreI(o)
    \/ \E d \in TimeSteps : TickI(d)
    \/ \E kind \in CallKinds : BeginCall(kind)
    \/ \E o \in StoreOptionsI : BeginStore(o)
    \/ \E k \in 1..MaxCalls, net \in NetChoices : EndStore(k, net)
    \/ \E id \in 1..MaxOpsI : BeginForget(id)
    \/ \E k \in 1..MaxCalls : EndForget(k)
    \/ \E k \in 1..MaxCalls, net \in NetChoices : BumpStep(k, net)
    \/ \E k \in 1..MaxCalls, net \in NetChoices : LoopStep(k, net)
    \/ \E k \in 1..MaxCalls, net \in NetChoices : CreateStep(k, net)
    \/ \E id \in 1..MaxOpsI : ReadJ(id)

SpecJ == InitI /\ [][NextJ]_vars

Mutating == {"store", "forget", "search", "decay", "rebalance"}

(* The cache and the vector store show the same record of id, or the cache *)
(* does not hold it                                                        *)
Agree(id) ==
    id \in DOMAIN wm => id \in DOMAIN vs /\ Meta(wm[id]) = Meta(StoreView(id))

(* C21: at every suspension point of a mutating operation (the write-back  *)
(* of search, applyDecay, rebalanceLayers, store, forget) a concurrent     *)
(* reader sees the record the operation is at with its pre-image in both   *)
(* WorkingCache and VectorStore or its post-image in both, never mixed.    *)
C21_NeverMixed ==
    \A k \in DOMAIN calls.open :
        calls.open[k].kind \in Mutating => Agree(calls.open[k].ids[calls.open[k].i])

(* C28: applyDecay and rebalanceLayers tolerate concurrent writes: if a    *)
(* record of the snapshot was deleted or updated during the pass, the pass *)
(* does not abort on it and goes on to the remaining records (requests     *)
(* that reach the vector store).                                           *)
C28_PassTolerant ==
    [][(last'.op \in {"decay", "rebalance"} /\ "phase" \in DOMAIN last'
           /\ last'.phase = "update" /\ last'.changed /\ last'.net) =>
          /\ ~last'.threw
          /\ last'.more => last'.call \in DOMAIN calls'.open]_vars

(* C29: once forget has returned an id as deleted, no later or concurrent  *)
(* operation makes it present again, in the VectorStore or in the          *)
(* WorkingCache.                                                           *)
C29_NoResurrection ==
    \A id \in calls.gone : id \notin DOMAIN vs /\ id \notin DOMAIN wm

(* C30: the Weaviate update (delete, then insert) is atomic for the        *)
(* engine: a concurrent get never finds the id absent, and if the insert   *)
(* fails the old record is still stored.                                   *)
C30_UpdateAtomic ==
    [][/\ (last'.op = "get" /\ last'.updating) => last'.found
       /\ (last'.op \in {"search", "decay", "rebalance"} /\ "phase" \in DOMAIN last'
              /\ last'.phase = "create" /\ last'.threw) =>
             \A id \in 1..MaxOpsI : id = last'.id => id \in DOMAIN vs']_vars

----------------------------------------------------------------------------
(* The record rebalanceLayers decides on for the stored id, and the ids    *)
(* it decides to change                                                    *)
C31_Decided(id) == RebalanceDecision(VsListed(backend, vs, id, now), now).m

C31_Changed ==
    {id \in DOMAIN vs :
        LET d == RebalanceDecision(VsListed(backend, vs, id, now), now)
        IN d.moved \/ d.touched}

(* C31: every change rebalanceLayers decides on is written through: after  *)
(* rebalanceLayers returns, for each record it promoted or demoted and for *)
(* each expired low-score long-term record whose importance it attenuated  *)
(* to max(0.1, importance * 0.5), VectorStore.get(id), and the             *)
(* WorkingCache entry if any, returns the new layer and the new            *)
(* importance.                                                             *)
C31_WrittenThrough ==
    [][(last'.op = "rebalance" /\ ~last'.threw) =>
          \A id \in C31_Changed :
              /\ id \in DOMAIN vs'
              /\ StoreView(id)'.layer = C31_Decided(id).layer
              /\ StoreView(id)'.importance = C31_Decided(id).importance
              /\ id \in DOMAIN wm =>
                    /\ id \in DOMAIN wm'
                    /\ wm'[id].layer = C31_Decided(id).layer
                    /\ wm'[id].importance = C31_Decided(id).importance]_vars

(* C32: applyDecay is the sole mechanism that lowers importance: no other  *)
(* operation (store, search, recall, rebalanceLayers, consolidate for the  *)
(* records it retains, forget for the records it keeps) leaves an existing *)
(* record with an importance lower than it had before the operation.       *)
C32_OnlyDecayLowers ==
    [][last'.op # "decay" =>
          /\ \A id \in DOMAIN vs \cap DOMAIN vs' :
                StoreView(id)'.importance >= StoreView(id).importance
          /\ \A id \in DOMAIN wm \cap DOMAIN wm' :
                wm'[id].importance >= wm[id].importance]_vars

(* The stored ids whose importance rebalanceLayers attenuates: expired     *)
(* long-term records of low score                                          *)
C32_Attenuated ==
    {id \in DOMAIN vs :
        LET m == VsListed(backend, vs, id, now)
        IN /\ m.layer = LONG_TERM
           /\ now - m.timestamp > TtlLongTerm
           /\ calculateMemoryScore(m, now) < DemoteScore}

(* C32 as the code has it: applyDecay and the attenuation of an expired    *)
(* low-score long-term record by rebalanceLayers are the only mechanisms   *)
(* that lower importance.                                                  *)
C32_DecayAndAttenuationLower ==
    [][last'.op # "decay" =>
          /\ \A id \in (DOMAIN vs \cap DOMAIN vs') :
                (last'.op = "rebalance" /\ id \in C32_Attenuated)
                   \/ StoreView(id)'.importance >= StoreView(id).importance
          /\ \A id \in (DOMAIN wm \cap DOMAIN wm') :
                (last'.op = "rebalance" /\ id \in C32_Attenuated)
                   \/ wm'[id].importance >= wm[id].importance]_vars

(* rebalanceLayers has halved the importance 1.0 of an expired long-term   *)
(* record of the in-process adapter                                        *)
C32_AttenuatedByRebalance ==
    /\ last.op = "rebalance" /\ ~last.threw
    /\ backend = "memory"
    /\ \E id \in DOMAIN vs :
          /\ vs[id].layer = LONG_TERM
          /\ now - vs[id].timestamp > TtlLongTerm
          /\ vs[id].importance = Attenuated(Scale)

----------------------------------------------------------------------------
(* The entry points that only report: memory_list, memory_stats and the    *)
(* counting step of the consolidation check                                *)
MaxOpsQ == 3

ListDefaultLimit == 100
ListMaxLimit == 1000
ListFactor == 10

ListArgs ==
    [limit : {NoLimit, 0, 1}, layer : {NoLayer, SHORT_TERM}, tags : {<<>>, <<"t">>}]

StoreOptionsQ ==
    { [content |-> "a", importance |-> 6000, tags |-> <<>>, source |-> NoSource,
       layer |-> NoLayer],
      [content |-> "b", importance |-> 2000, tags |-> <<"t">>, source |-> NoSource,
       layer |-> LONG_TERM] }

(* handleMemoryList: validation, then search with the empty query and ten  *)
(* times the limit, cut to the limit                                       *)
ListAfter(v, r) ==
    IF ~v.ok THEN [e |-> Engine, ret |-> <<>>, isError |-> TRUE, searched |-> FALSE]
    ELSE [e |-> r.e, ret |-> Prefix(r.ret, v.limit), isError |-> ~r.e.ok, searched |-> TRUE]

handleMemoryList(e, a, t) ==
    LET v == validateLimit(a.limit, ListDefaultLimit, ListMaxLimit)
        layerFilter == IF a.layer = NoLayer THEN <<>> ELSE <<a.layer>>
    IN ListAfter(v, mgrSearch(e, <<>>, v.limit * ListFactor, 0, layerFilter, a.tags, t,
                              NoFailure))

(* handleMemoryStats: one search with the empty query per layer; a throw   *)
(* of one of them leaves the later ones out                                *)
StatsThen(r, layer, t) ==
    IF ~r.e.ok THEN r
    ELSE LET n == mgrSearch(r.e, <<>>, StatsLimit, 0, <<layer>>, <<>>, t, NoFailure)
         IN [e |-> n.e, ret |-> r.ret \o n.ret]

handleMemoryStats(e, t) ==
    StatsThen(StatsThen(mgrSearch(e, <<>>, StatsLimit, 0, <<WORKING>>, <<>>, t, NoFailure),
                        SHORT_TERM, t),
              LONG_TERM, t)

StepQ ==
    /\ steps < MaxOpsQ
    /\ steps' = steps + 1
    /\ UNCHANGED <<backend, calls>>

StoreQ(o) ==
    /\ StepQ
    /\ LET e == mgrStore(Engine, nextId, o.content, o, now, TRUE)
       IN /\ Commit(e)
          /\ last' = Done("store", e, nextId, <<>>, <<>>, NoSearch)
    /\ nextId' = nextId + 1
    /\ UNCHANGED now

TickQ(d) ==
    /\ StepQ
    /\ now = Start
    /\ now' = now + d
    /\ last' = Done("tick", Engine, 0, <<>>, <<>>, NoSearch)
    /\ UNCHANGED <<vs, wm, alias, nextId, faulted>>

ListQ(a) ==
    /\ StepQ
    /\ \E r \in {handleMemoryList(Engine, a, now)} :
          /\ Commit(r.e)
          /\ last' = Done("memory_list", r.e, 0, r.ret, <<>>, NoSearch)
                        @@ [args |-> a, isError |-> r.isError, searched |-> r.searched]
    /\ UNCHANGED <<now, nextId>>

StatsQ ==
    /\ StepQ
    /\ \E r \in {handleMemoryStats(Engine, now)} :
          /\ Commit(r.e)
          /\ last' = Done("memory_stats", r.e, 0, r.ret, <<>>, NoSearch)
    /\ UNCHANGED <<now, nextId>>

CountQ ==
    /\ StepQ
    /\ \E r \in {getConsolidationStats(Engine, now, NoFailure)} :
          /\ Commit(r.e)
          /\ last' = Done("count", r.e, 0, <<>>, <<>>, NoSearch)
                        @@ [count |-> r.shortTermCount]
    /\ UNCHANGED <<now, nextId>>

NextQ ==
    \/ \E o \in StoreOptionsQ : StoreQ(o)
    \/ \E d \in TimeSteps : TickQ(d)
    \/ \E a \in ListArgs : ListQ(a)
    \/ StatsQ
    \/ CountQ

SpecQ == Init /\ [][NextQ]_vars

ReadOnlyOps == {"memory_list", "memory_stats", "count"}

(* C33: memory_stats, memory_list and the counting step of the            *)
(* consolidation check leave every stored record unchanged: no            *)
(* accessCount, lastAccessed or other field differs afterwards, in the     *)
(* store and in the cache.                                                 *)
C33_ReadOnlyEntryPoints ==
    [][last'.op \in ReadOnlyOps => (vs' = vs /\ wm' = wm)]_vars

----------------------------------------------------------------------------
(* consolidate calls in progress at the same time: the tool handler and    *)
(* the scheduler's check call MemoryManager.consolidate without a lock,    *)
(* and a call awaits the list, the embedding and the store of each         *)
(* consolidated record, and the deletion of its group                      *)
MaxCallsG == 2
NumGA == 4
NumGB == 3

QuotaG(o) == IF o = PlainA THEN NumGA ELSE NumGB

(* The groups of at least three that consolidate works through, in the     *)
(* order of the keys of groupByTags                                        *)
RECURSIVE PlanGroups(_, _, _, _)
PlanGroups(keys, i, ids, L) ==
    IF i > Len(keys) THEN <<>>
    ELSE LET group == groupByTags(ids, L, keys[i])
         IN (IF Len(group) < MinGroupSize THEN <<>>
             ELSE <<[tag |-> keys[i], ids |-> group]>>)
            \o PlanGroups(keys, i + 1, ids, L)

(* consolidate up to its first store: the list, the retain set, the groups *)
ConsolidatePlan(e, targetSize, layer, t) ==
    LET old == Candidates(e, NoTime, layer, t)
        L == [id \in Range(old) |-> VsListed(backend, e.vs, id, t)]
        sorted == SortDesc(old, [id \in Range(old) |-> calculateMemoryScore(L[id], t)])
        rest == SubSeq(sorted, targetSize + 1, Len(sorted))
    IN [old |-> old, L |-> L,
        groups |-> IF Len(old) < targetSize THEN <<>>
                   ELSE PlanGroups(GroupKeys(rest, L, {}), 1, rest, L)]

(* On the in-process adapter deleteBatch and the cache deletions follow    *)
(* the store of the consolidated record without a pending promise          *)
InGroup ==
    /\ backend = "memory"
    /\ \E k \in DOMAIN calls.open : calls.open[k].phase = "delete"

(* The topic-A records of a run are stored before its topic-B records *)
StoreG(o) ==
    /\ now = Start
    /\ Stored(o) < QuotaG(o)
    /\ o = PlainB => Stored(PlainA) = QuotaG(PlainA)
    /\ LET e == mgrStore(Engine, nextId, o.content, o, now, TRUE)
       IN /\ Commit(e)
          /\ last' = Done("store", e, nextId, <<>>, <<>>, NoSearch)
    /\ nextId' = nextId + 1
    /\ UNCHANGED <<now, steps, backend, calls>>

TickG ==
    /\ now = Start
    /\ now' = now + FortyDays
    /\ last' = Done("tick", Engine, 0, <<>>, <<>>, NoSearch)
    /\ UNCHANGED <<vs, wm, alias, nextId, faulted, steps, backend, calls>>

(* consolidate({layer: short-term, targetSize}) lists and plans *)
BeginConsolidate(targetSize) ==
    /\ now # Start
    /\ calls.begun < MaxCallsG
    /\ ~InGroup
    /\ LET k == calls.begun + 1
           p == ConsolidatePlan(Engine, targetSize, SHORT_TERM, now)
           c == [kind |-> "consolidate", targetSize |-> targetSize, old |-> p.old,
                 L |-> p.L, groups |-> p.groups, i |-> 1,
                 phase |-> IF p.groups = <<>> THEN "done" ELSE "store",
                 consolidated |-> <<>>, deleted |-> <<>>, threw |-> FALSE]
       IN /\ calls' = [calls EXCEPT !.open = Put(@, k, c), !.begun = k]
          /\ last' = Done("consolidate", Engine, 0, <<>>, <<>>, NoSearch)
                        @@ [call |-> k, phase |-> "list"]
    /\ UNCHANGED <<vs, wm, alias, now, steps, nextId, faulted, backend>>

(* The store of a group's consolidated record whose throw is swallowed:    *)
(* the call goes on to delete the group                                    *)
GroupStore_Continuing(k, net) ==
    /\ k \in DOMAIN calls.open
    /\ calls.open[k].phase = "store"
    /\ ~InGroup
    /\ LET c == calls.open[k]
           g == c.groups[c.i]
           o == ConsolidatedOptions(g.ids, c.L, g.tag)
           e == mgrStore(Engine, nextId, o.content, o, now, net)
       IN /\ Commit(e)
          /\ calls' = [calls EXCEPT !.open = Put(@, k,
                          IF e.ok
                          THEN [c EXCEPT !.phase = "delete",
                                         !.consolidated = Append(@, nextId)]
                          ELSE [c EXCEPT !.phase = "delete", !.threw = TRUE])]
          /\ last' = Done("consolidate", e, nextId, <<>>, <<>>, NoSearch)
                        @@ [call |-> k, phase |-> "store"]
    /\ nextId' = nextId + 1
    /\ UNCHANGED <<now, steps, backend>>

(* this.store(consolidatedContent, ...) of the current group; a throw ends *)
(* the call                                                                *)
GroupStore(k, net) ==
    /\ k \in DOMAIN calls.open
    /\ calls.open[k].phase = "store"
    /\ ~InGroup
    /\ LET c == calls.open[k]
           g == c.groups[c.i]
           o == ConsolidatedOptions(g.ids, c.L, g.tag)
           e == mgrStore(Engine, nextId, o.content, o, now, net)
       IN /\ Commit(e)
          /\ calls' = [calls EXCEPT !.open = Put(@, k,
                          IF e.ok
                          THEN [c EXCEPT !.phase = "delete",
                                         !.consolidated = Append(@, nextId)]
                          ELSE [c EXCEPT !.phase = "done", !.threw = TRUE])]
          /\ last' = Done("consolidate", e, nextId, <<>>, <<>>, NoSearch)
                        @@ [call |-> k, phase |-> "store"]
    /\ nextId' = nextId + 1
    /\ UNCHANGED <<now, steps, backend>>

(* deleteBatch(ids), then workingMemory.delete and deleted.push per id *)
GroupDelete(k) ==
    /\ k \in DOMAIN calls.open
    /\ calls.open[k].phase = "delete"
    /\ LET c == calls.open[k]
           g == c.groups[c.i]
           e == [Engine EXCEPT !.vs = VsDeleteBatch(backend, vs, g.ids),
                               !.wm = DelAll(wm, Range(g.ids)),
                               !.alias = alias \ Range(g.ids)]
       IN /\ Commit(e)
          /\ calls' = [calls EXCEPT !.open = Put(@, k,
                          [c EXCEPT !.deleted = @ \o g.ids,
                                    !.i = @ + 1,
                                    !.phase = IF c.i < Len(c.groups) THEN "store"
                                              ELSE "done"])]
          /\ last' = Done("consolidate", e, 0, g.ids, <<>>, NoSearch)
                        @@ [call |-> k, phase |-> "delete"]
    /\ UNCHANGED <<now, steps, nextId, backend>>

TargetSizesG == {1, DefaultTargetSize}

NextG ==
    \/ \E o \in {PlainA, PlainB} : StoreG(o)
    \/ TickG
    \/ \E ts \in TargetSizesG : BeginConsolidate(ts)
    \/ \E k \in 1..MaxCallsG, net \in BOOLEAN : GroupStore(k, net)
    \/ \E k \in 1..MaxCallsG : GroupDelete(k)

SpecG == Init /\ [][NextG]_vars

(* The consolidate calls that list id among their deleted originals *)
MergedBy(id) == {k \in DOMAIN calls.open : id \in Range(calls.open[k].deleted)}

(* The consolidated records of call k made from the group of tag *)
RecordsFor(k, tag) ==
    {i \in 1..Len(calls.open[k].consolidated) : calls.open[k].groups[i].tag = tag}

(* C34: with consolidate calls running at the same time on the same layer, *)
(* every original is merged into at most one consolidated record: no id is *)
(* in the deleted list of two calls and no group has two consolidated      *)
(* records.                                                                *)
C34_MergedOnce ==
    /\ \A id \in 1..(NumGA + NumGB) : Cardinality(MergedBy(id)) <= 1
    /\ \A tag \in {TOPIC_A, TOPIC_B} :
          Cardinality({k \in DOMAIN calls.open : RecordsFor(k, tag) # {}}) <= 1

(* id is in the store, or it is a member of a group whose consolidated     *)
(* record is in the store                                                  *)
Covered(id) ==
    \/ id \in DOMAIN vs
    \/ \E k \in DOMAIN calls.open :
          \E i \in 1..Len(calls.open[k].consolidated) :
             /\ id \in Range(calls.open[k].groups[i].ids)
             /\ calls.open[k].consolidated[i] \in DOMAIN vs

(* C35: in consolidate the consolidated record of a group is stored before *)
(* any member of the group is deleted; when storing it fails the call      *)
(* deletes no member of that group or of a later one; so in every state    *)
(* each candidate is in the store as the original or is covered by a       *)
(* stored consolidated record.                                             *)
C35_StoredBeforeDeleted ==
    /\ [][(last'.op = "consolidate" /\ last'.phase = "delete") =>
             LET c == calls.open[last'.call]
             IN /\ ~c.threw
                /\ Len(c.consolidated) >= c.i
                /\ c.consolidated[c.i] \in DOMAIN vs]_vars
    /\ [][\A k \in DOMAIN calls.open :
             calls.open[k].threw =>
                /\ calls'.open[k].deleted = calls.open[k].deleted
                /\ calls'.open[k].phase = "done"]_vars
    /\ [](\A k \in DOMAIN calls.open : \A id \in Range(calls.open[k].old) : Covered(id))

(* The store of the second group's consolidated record has thrown after    *)
(* the first group was deleted: the members of the second group are all    *)
(* still stored                                                            *)
C35_SecondStoreFailed ==
    \E k \in DOMAIN calls.open :
       LET c == calls.open[k]
       IN /\ c.threw
          /\ c.i = 2
          /\ c.deleted = c.groups[1].ids
          /\ c.consolidated[1] \in DOMAIN vs
          /\ Range(c.groups[2].ids) \subseteq DOMAIN vs
          /\ backend # "pinecone"
          /\ Range(c.deleted) \cap DOMAIN vs = {}

(* The layer changes an existing record can undergo *)
LayerMoves ==
    {<<WORKING, LONG_TERM>>, <<SHORT_TERM, LONG_TERM>>, <<SHORT_TERM, WORKING>>}

(* C36: long-term is absorbing.  The only layer changes of an existing     *)
(* record are working to long-term, short-term to long-term and            *)
(* short-term to working: a long-term record never changes layer and       *)
(* nothing moves from working to short-term, in the store and in the cache.*)
C36_LongTermAbsorbing ==
    [][/\ \A id \in (DOMAIN vs \cap DOMAIN vs') :
             \/ StoreView(id)'.layer = StoreView(id).layer
             \/ <<StoreView(id).layer, StoreView(id)'.layer>> \in LayerMoves
       /\ \A id \in (DOMAIN wm \cap DOMAIN wm') :
             \/ wm'[id].layer = wm[id].layer
             \/ <<wm[id].layer, wm'[id].layer>> \in LayerMoves]_vars

(* rebalanceLayers has demoted an expired short-term record of importance  *)
(* 0.2 to working and has left a long-term record in long-term             *)
C36_DemotedToWorking ==
    /\ last.op = "rebalance" /\ ~last.threw
    /\ \E id \in DOMAIN vs :
          /\ StoreView(id).layer = WORKING
          /\ StoreView(id).importance = 2000
          /\ now - StoreView(id).timestamp > TtlShortTerm
    /\ \E id \in DOMAIN vs : StoreView(id).layer = LONG_TERM

----------------------------------------------------------------------------
(* The size of the WorkingCache over a run of stores around one restart    *)
MaxStoresW == 101
MaxRestartsW == 1

PlainW == [content |-> "a", importance |-> 6000, tags |-> <<>>, source |-> NoSource,
           layer |-> NoLayer]

StoreW ==
    /\ nextId <= MaxStoresW
    /\ LET e == mgrStore(Engine, nextId, PlainW.content, PlainW, now, TRUE)
       IN /\ Commit(e)
          /\ last' = Done("store", e, nextId, <<>>, <<>>, NoSearch)
    /\ nextId' = nextId + 1
    /\ UNCHANGED <<now, steps, backend, calls>>

(* close, then a new process initializes on the same store *)
RestartW ==
    /\ steps < MaxRestartsW
    /\ steps' = steps + 1
    /\ LET e == loadWorkingMemory(mgrClose(Engine), now)
       IN /\ Commit(e)
          /\ last' = Done("restart", e, 0, <<>>, <<>>, NoSearch)
    /\ UNCHANGED <<now, nextId, backend, calls>>

NextW ==
    \/ StoreW
    \/ RestartW

SpecW == Init /\ [][NextW]_vars

(* C37: the WorkingCache never holds more than 100 entries, after          *)
(* initialize and after any number of store calls.                         *)
C37_CacheWithinCapacity == Cardinality(DOMAIN wm) <= WorkingCapacity

----------------------------------------------------------------------------
(* The IVectorStore adapters called directly: store, update and search     *)
MaxOpsA == 3
MaxIdsA == 2

(* The valid records of a run: content "a" for id 1 and "b" for the others *)
RecordsA ==
    { [id |-> i, content |-> IF i = 1 THEN "a" ELSE "b", vec |-> v,
       timestamp |-> Start, importance |-> imp, source |-> AGENT, tags |-> tg,
       accessCount |-> ac, lastAccessed |-> Start, layer |-> l] :
         i \in 1..MaxIdsA, v \in BOOLEAN, imp \in {0, 5000},
         tg \in {<<>>, <<"t">>, <<CommaTag>>}, ac \in {0, 2},
         l \in {WORKING, LONG_TERM} }

SearchFiltersA == [k : {1, 2}, layer : {NoLayer, LONG_TERM}, tags : {<<>>, <<"t">>}]

(* The outcome of an adapter call, as the record of the last operation *)
DoneA(op, ok, id, ret) ==
    Done(op, [Engine EXCEPT !.ok = ok, !.err = ~ok], id, ret, <<>>, NoSearch)

StepA ==
    /\ steps < MaxOpsA
    /\ steps' = steps + 1
    /\ UNCHANGED <<backend, calls, wm, alias, now, nextId, faulted>>

(* IVectorStore.store(r) for a record with an embedding *)
StoreA(r) ==
    /\ StepA
    /\ r.vec
    /\ r.id \notin DOMAIN vs
    /\ \E x \in {VsStore(backend, vs, r, TRUE)} :
          /\ vs' = x.s
          /\ last' = DoneA("store", x.ok, r.id, <<>>) @@ [r |-> r]

(* IVectorStore.update(r) for a stored id, with or without an embedding *)
UpdateA(r) ==
    /\ StepA
    /\ r.id \in DOMAIN vs
    /\ \E x \in {VsUpdate(backend, vs, r, TRUE)} :
          /\ vs' = x.s
          /\ last' = DoneA("update", x.ok, r.id, <<>>) @@ [r |-> r]

(* IVectorStore.search(embedding of q, k, {layer, tags}) *)
SearchA(q, f) ==
    /\ StepA
    /\ vs' = vs
    /\ last' = DoneA("search", TRUE, 0, VsSearch(backend, vs, q, f.k, f.layer, f.tags))
                   @@ [filter |-> f]

NextA ==
    \/ \E r \in RecordsA : StoreA(r)
    \/ \E r \in RecordsA : UpdateA(r)
    \/ \E f \in SearchFiltersA : SearchA(<<"a">>, f)

SpecA == Init /\ [][NextA]_vars

(* The stored records with an embedding that satisfy filter f *)
Satisfying(f) ==
    {id \in DOMAIN vs : vs[id].vec /\ Matches(backend, vs[id], f.layer, f.tags)}

(* C38: search(vector, k, filter) returns min(k, m) results, m being the   *)
(* number of stored records that satisfy the filter, also when the k       *)
(* nearest records overall do not satisfy it.                              *)
C38_FilteredSearchComplete ==
    last.op = "search" =>
       Len(last.ret) = Min(last.filter.k, Cardinality(Satisfying(last.filter)))

(* C39: on each adapter store(r) followed by get(r.id) returns the content *)
(* and metadata of r, for every valid r (importance 0, accessCount 0, a    *)
(* tag with a comma and an empty tag list included), and a following       *)
(* update(r2) makes get return r2 with the vector still found by search.   *)
C39_RoundTrip ==
    [][last'.op \in {"store", "update"} =>
          \A id \in 1..MaxIdsA :
              id = last'.id =>
                 /\ ~last'.threw
                 /\ id \in DOMAIN vs'
                 /\ StoreView(id)'.content = last'.r.content
                 /\ Meta(StoreView(id)') = Meta(last'.r)
                 /\ id \in Range(VsSearch(backend, vs', <<last'.r.content>>, MaxIdsA,
                                          NoLayer, <<>>))]_vars

----------------------------------------------------------------------------
(* createRateLimiter.  In SpecL the variable calls holds the limiter:      *)
(* maxRequests and windowMs of its creation, the requests map, and the log *)
(* of the calls made on it; now is Date.now() in milliseconds              *)
MaxOpsL == 5

Identifiers == {"u1", "u2"}
ALL == "all"

createRateLimiter(maxRequests, windowMs) ==
    [maxRequests |-> maxRequests, windowMs |-> windowMs, requests |-> <<>>, log |-> <<>>]

(* check(identifier) with the strict comparison: one request too many *)
check_OffByOne(rl, identifier, t) ==
    LET windowStart == t - rl.windowMs
        seen == IF identifier \in DOMAIN rl.requests THEN rl.requests[identifier] ELSE <<>>
        userRequests == SelectSeq(seen, LAMBDA x : x > windowStart)
    IN IF Len(userRequests) > rl.maxRequests
       THEN [rl |-> rl, ret |-> FALSE]
       ELSE [rl |-> [rl EXCEPT !.requests = Put(@, identifier, Append(userRequests, t))],
             ret |-> TRUE]

(* check(identifier) at time t: the limiter afterwards and the boolean *)
check(rl, identifier, t) ==
    LET windowStart == t - rl.windowMs
        seen == IF identifier \in DOMAIN rl.requests THEN rl.requests[identifier] ELSE <<>>
        userRequests == SelectSeq(seen, LAMBDA x : x > windowStart)
    IN IF Len(userRequests) >= rl.maxRequests
       THEN [rl |-> rl, ret |-> FALSE]
       ELSE [rl |-> [rl EXCEPT !.requests = Put(@, identifier, Append(userRequests, t))],
             ret |-> TRUE]

(* reset(identifier) and reset() *)
reset(rl, identifier) ==
    IF identifier = ALL THEN [rl EXCEPT !.requests = <<>>]
    ELSE [rl EXCEPT !.requests = DelAll(@, {identifier})]

InitL ==
    /\ backend = "memory"
    /\ vs = <<>>
    /\ wm = <<>>
    /\ alias = {}
    /\ now = Start
    /\ steps = 0
    /\ nextId = 1
    /\ faulted = FALSE
    /\ last = [op |-> "init", id |-> ALL, ret |-> FALSE, t |-> Start]
    /\ \E maxRequests \in {1, 2}, windowMs \in {2, 3} :
          calls = createRateLimiter(maxRequests, windowMs)

StepL ==
    /\ steps < MaxOpsL
    /\ steps' = steps + 1
    /\ UNCHANGED <<backend, vs, wm, alias, nextId, faulted>>

(* Date.now() advances between two calls *)
TickL(d) ==
    /\ StepL
    /\ last.op # "tick"
    /\ now' = now + d
    /\ last' = [op |-> "tick", id |-> ALL, ret |-> FALSE, t |-> now + d]
    /\ UNCHANGED calls

CheckL(identifier) ==
    /\ StepL
    /\ \E r \in {check(calls, identifier, now)} :
          /\ last' = [op |-> "check", id |-> identifier, ret |-> r.ret, t |-> now]
          /\ calls' = [r.rl EXCEPT !.log = Append(@, last')]
    /\ UNCHANGED now

ResetL(identifier) ==
    /\ StepL
    /\ last' = [op |-> "reset", id |-> identifier, ret |-> FALSE, t |-> now]
    /\ calls' = [reset(calls, identifier) EXCEPT !.log = Append(@, last')]
    /\ UNCHANGED now

NextL ==
    \/ \E d \in {1, 2} : TickL(d)
    \/ \E identifier \in Identifiers : CheckL(identifier)
    \/ \E identifier \in Identifiers \cup {ALL} : ResetL(identifier)

SpecL == InitL /\ [][NextL]_vars

(* The calls of the log that checked identifier, returned true and fall    *)
(* into the window (t - windowMs, t]                                       *)
AcceptedIn(identifier, t) ==
    {i \in DOMAIN calls.log :
        /\ calls.log[i].op = "check" /\ calls.log[i].id = identifier /\ calls.log[i].ret
        /\ calls.log[i].t > t - calls.windowMs
        /\ calls.log[i].t <= t}

OnlyChecks == \A i \in DOMAIN calls.log : calls.log[i].op = "check"

Recorded(rl, identifier) ==
    IF identifier \in DOMAIN rl.requests THEN rl.requests[identifier] ELSE <<>>

(* C40: over a sequence of check calls at non-decreasing times at most     *)
(* maxRequests calls of an identifier return true in any window            *)
(* (t - windowMs, t]; a call that returns false is not recorded; and a     *)
(* check of one identifier neither depends on nor changes what is recorded *)
(* for another.                                                            *)
C40_RateLimited ==
    /\ [](OnlyChecks =>
            \A identifier \in Identifiers : \A t \in Start..now :
                Cardinality(AcceptedIn(identifier, t)) <= calls.maxRequests)
    /\ [][last'.op = "check" =>
             /\ ~last'.ret => calls'.requests = calls.requests
             /\ \A identifier \in Identifiers :
                   \/ identifier = last'.id
                   \/ Recorded(calls', identifier) = Recorded(calls, identifier)
             /\ OnlyChecks =>
                   \A identifier \in Identifiers :
                      identifier = last'.id =>
                         (last'.ret <=>
                            Cardinality(AcceptedIn(identifier, now)) < calls.maxRequests)]_vars

(* A check was refused at the limit and, the window having passed, a later *)
(* check of the same identifier was accepted                               *)
C40_AcceptedAfterWindow ==
    /\ OnlyChecks
    /\ last.op = "check" /\ last.ret
    /\ \E i \in DOMAIN calls.log :
          /\ calls.log[i].id = last.id /\ ~calls.log[i].ret
          /\ calls.log[i].t < last.t
    /\ Cardinality(AcceptedIn(last.id, now)) = calls.maxRequests

====
